---- MODULE Spec2Model ----
(***************************************************************************)
(* StructuredResponseTool (structuredResponseTool.js): schema-constrained  *)
(* extraction over unreliable backends.  One public operation runs at a    *)
(* time; it is suspended at every `await this.env.AI.run(...)`, where the  *)
(* backend's answer is a nondeterministic choice.                          *)
(*                                                                         *)
(* JavaScript strings that are built by template literals are modelled as  *)
(* sequences of tokens, so that "the message contains X" is a statement    *)
(* about the sequence.  JavaScript objects are functions from their own    *)
(* keys; a JSON value is a record [k |-> kind, v |-> payload].             *)
(***************************************************************************)
EXTENDS Integers, Sequences, FiniteSets, TLC

VARIABLES
    pc,                   \* "idle" | "exec" | "await" | "done"
    op,                   \* the public method in progress
    path,                 \* where in analyzeText/chunkAndMerge control is
    attempt,              \* cascade position (1-based) or chunk index i (0-based)
    schema,               \* the schema argument
    textPayload,          \* the text argument
    modelArg,             \* the modelName argument (analyzeTextWithModel, chunkAndMerge, batch)
    textPayloads,         \* requestBatchAnalysis: the texts argument
    externalReferences,   \* requestBatchAnalysis: the optional references argument
    result,               \* analyzeText's / chunkAndMerge's local `result`, the batch methods' `response`
    textChunks,           \* chunkAndMerge's textChunks
    mergedResults,        \* chunkAndMerge's accumulator
    firstSuccessfulModel, \* chunkAndMerge's firstSuccessfulModel
    pending,              \* the env.AI.run call that is outstanding, or NoCall
    aiCalls,              \* every env.AI.run call of this operation, in order
    execLog,              \* every executeModel invocation of this operation, with its result
    outcome,              \* what the public method gave its caller
    requestId,            \* pollBatchAnalysisStatus: the requestId argument
    currentResults,       \* merge loop on its own: the chunk payloads to fold, in order
    candidate,            \* fillMissingFields on its own: the aiResponse argument
    repairLog,            \* fillMissingFields on its own: each application, in order
    commands,             \* executeCommandSequence: the commands argument
    commandIndex,         \* executeCommandSequence: position of the for-of loop (0-based)
    results,              \* executeCommandSequence: the results array
    sequenceSent,         \* every body POSTed to sessionStub, in order
    sequencePc,           \* "idle" | "await" | "returned"
    sessionMetadata,      \* PlannerSessionDO: this.sessionMetadata (planId, modifications), or NoMetadata
    storedMetadata,       \* PlannerSessionDO: what state.storage holds under 'metadata'
    alarmScheduled,       \* PlannerSessionDO: whether state.storage holds an alarm time
    planStorage,          \* the plan ids env.PLANNER_STORAGE holds an object for
    containerRequests,    \* every container.fetch of the session, in order
    commandTask,          \* an executeCommand call made for a /command request
    loadTask,             \* a loadPlan call
    alarmTask,            \* an alarm() invocation
    webSocket,            \* PlannerSessionDO: this.webSocket (a socket id), or NoSocket
    sockets,              \* the server sockets accepted so far, each "open" or "closed"
    socketLog,            \* every message a socket took from send(), in order
    request,              \* Worker fetch: the request
    workerEnv,            \* Worker fetch: the env bindings read (the three secrets)
    workerResponse,       \* Worker fetch: the status of the response, or NoResponse
    sessionFetches,       \* Worker fetch: every session.fetch made for the request
    workerPc,             \* "idle" | "handler" | "done"
    batch,                \* queue consumer: the bodies of batch.messages
    queueIndex,           \* queue consumer: position of the for-of loop (0-based)
    settlements,          \* queue consumer: every ack() / retry() call, in order
    queueCalls,           \* queue consumer: every call made on a session, in order
    queuePc               \* "idle" | "take" | "await" | "done"

vars == <<pc, op, path, attempt, schema, textPayload, modelArg, textPayloads,
          externalReferences, result, textChunks, mergedResults, firstSuccessfulModel,
          pending, aiCalls, execLog, outcome, requestId, currentResults,
          candidate, repairLog,
          commands, commandIndex, results, sequenceSent, sequencePc,
          sessionMetadata, storedMetadata, alarmScheduled, planStorage,
          containerRequests, commandTask, loadTask, alarmTask,
          webSocket, sockets, socketLog,
          request, workerEnv, workerResponse, sessionFetches, workerPc,
          batch, queueIndex, settlements, queueCalls, queuePc>>

batchArgs == <<textPayloads, externalReferences>>
chunkVars == <<textChunks, mergedResults, firstSuccessfulModel>>
pureVars == <<currentResults, candidate, repairLog>>

\* The state of StructuredResponseTool, and the state of what surrounds it
\* (agent-helper.js, durable-object.js, index.js).
toolVars == <<pc, op, path, attempt, schema, textPayload, modelArg, batchArgs,
              result, chunkVars, pending, aiCalls, execLog, outcome, requestId,
              pureVars>>
sequenceVars == <<commands, commandIndex, results, sequenceSent, sequencePc>>
sessionVars == <<sessionMetadata, storedMetadata, alarmScheduled, planStorage,
                 containerRequests, commandTask, loadTask, alarmTask>>
socketVars == <<webSocket, sockets, socketLog>>
workerVars == <<request, workerEnv, workerResponse, sessionFetches, workerPc>>
queueVars == <<batch, queueIndex, settlements, queueCalls, queuePc>>
actorVars == <<sequenceVars, sessionVars, socketVars, workerVars, queueVars>>

\* executeCommandSequence has not been called.
SequenceAtRest ==
    /\ commands = <<>>
    /\ commandIndex = 0
    /\ results = <<>>
    /\ sequenceSent = <<>>
    /\ sequencePc = "idle"

NoMetadata == [none |-> TRUE]   \* null in memory, undefined in storage
IdleTask == [pc |-> "idle"]

\* The session object as its constructor leaves it, over empty storage.
SessionAtRest ==
    /\ sessionMetadata = NoMetadata
    /\ storedMetadata = NoMetadata
    /\ alarmScheduled = FALSE
    /\ planStorage = {}
    /\ containerRequests = <<>>
    /\ commandTask = IdleTask
    /\ loadTask = IdleTask
    /\ alarmTask = IdleTask

NoSocket == 0   \* this.webSocket = null

SocketAtRest ==
    /\ webSocket = NoSocket
    /\ sockets = <<>>
    /\ socketLog = <<>>

NoRequest == [none |-> TRUE]
NoResponse == 0

\* The Worker before a request arrives.
WorkerAtRest ==
    /\ request = NoRequest
    /\ workerEnv = NoRequest
    /\ workerResponse = NoResponse
    /\ sessionFetches = <<>>
    /\ workerPc = "idle"

\* The queue consumer before a batch arrives.
QueueAtRest ==
    /\ batch = <<>>
    /\ queueIndex = 0
    /\ settlements = <<>>
    /\ queueCalls = <<>>
    /\ queuePc = "idle"

ActorsAtRest ==
    /\ SequenceAtRest
    /\ SessionAtRest
    /\ SocketAtRest
    /\ WorkerAtRest
    /\ QueueAtRest

----------------------------------------------------------------------------
(* Bounds of the model.                                                    *)

\* The small-context character budget (80000 in the source), scaled down.
maxSmallContextChars == 2
\* Longest text the model feeds in, beyond the budget by this many characters.
MaxExtraChars == 3

----------------------------------------------------------------------------
(* Backend identifiers (imported from models.js).                          *)

Hermes2Pro == "Hermes2Pro"
Llama3_3 == "Llama3_3"
Llama4Scout == "Llama4Scout"
MistralSmall3_1 == "MistralSmall3_1"

getAvailableModels == <<Llama4Scout, MistralSmall3_1, Hermes2Pro, Llama3_3>>

\* Backends the model passes to the methods that take a modelName.
ModelNames == {Hermes2Pro, Llama4Scout}

----------------------------------------------------------------------------
(* JavaScript values.                                                      *)

Null == [k |-> "null", v |-> <<>>]
Undefined == [k |-> "undefined", v |-> <<>>]
Str(s) == [k |-> "string", v |-> <<s>>]
Num(n) == [k |-> "number", v |-> <<ToString(n)>>]
Bool(b) == [k |-> "boolean", v |-> <<ToString(b)>>]
Arr(a) == [k |-> "array", v |-> a]
Obj(o) == [k |-> "object", v |-> o]

EmptyObject == <<>>

\* obj[key] of JavaScript: undefined for a key the object does not have.
Get(obj, key) == IF key \in DOMAIN obj THEN obj[key] ELSE Undefined

\* { ...a, ...b }
Spread(a, b) == [x \in (DOMAIN a) \cup (DOMAIN b) |-> IF x \in DOMAIN b THEN b[x] ELSE a[x]]

\* { ...value } of a JavaScript value: own enumerable keys of an object, the
\* indexed characters of a string.
SpreadValue(value) ==
    CASE value.k = "object" -> value.v
      [] value.k = "string" -> [i \in {"0"} |-> value]
      [] OTHER -> EmptyObject

----------------------------------------------------------------------------
(* Strings built from template literals: sequences of tokens.              *)

\* Whether the token sequence `part` occurs contiguously in `text`.
Contains(text, part) ==
    \E i \in 0..(Len(text) - Len(part)) :
        \A j \in 1..Len(part) : text[i + j] = part[j]

----------------------------------------------------------------------------
(* Zod schemas.  A schema is [typeName, shape]; `shape` maps each declared *)
(* field to its type, [typeName] with its checks (schema.shape[key]._def),  *)
(* and is empty for a schema that is not a ZodObject (no schema.shape).     *)

\* z.string(), z.number(), z.boolean(), z.array(z.string()), z.object({...}),
\* z.string().nullable(), z.string().optional()
ZodType(typeName) == [typeName |-> typeName]

\* z.array(z.string()).max(n)
ZodArrayMax(n) == [typeName |-> "ZodArray", maxLength |-> n]

\* Declared fields in declaration order (the order zod reports issues in).
FieldOrder == <<"title", "tags", "meta", "note", "opt", "count", "done">>

ZodObjectSchema(shape) == [typeName |-> "ZodObject", shape |-> shape]

Schemas ==
    { ZodObjectSchema([title |-> ZodType("ZodString"), tags |-> ZodType("ZodArray")]),
      ZodObjectSchema([meta |-> ZodType("ZodObject"), note |-> ZodType("ZodNullable")]),
      ZodObjectSchema([count |-> ZodType("ZodNumber"), done |-> ZodType("ZodBoolean")]),
      ZodObjectSchema([title |-> ZodType("ZodString"), opt |-> ZodType("ZodOptional")]),
      ZodObjectSchema([tags |-> ZodArrayMax(1)]),
      [typeName |-> "ZodString", shape |-> EmptyObject],
      [typeName |-> "ZodRecord", shape |-> EmptyObject],
      [typeName |-> "ZodAny", shape |-> EmptyObject] }

\* zodToJsonSchema(schema, {...}): the JSON Schema of each kind of schema.
zodToJsonSchema(s) ==
    LET marker == "$schema" :> "http://json-schema.org/draft-07/schema#" IN
    CASE s.typeName = "ZodObject" ->
             marker @@ ("type" :> "object") @@ ("properties" :> DOMAIN s.shape)
                    @@ ("additionalProperties" :> "false")
      [] s.typeName = "ZodRecord" ->
             marker @@ ("type" :> "object") @@ ("additionalProperties" :> "string")
      [] s.typeName = "ZodString" -> marker @@ ("type" :> "string")
      [] OTHER -> marker

\* `delete jsonSchema.$schema`
StripSchemaMarker(jsonSchema) ==
    [x \in (DOMAIN jsonSchema) \ {"$schema"} |-> jsonSchema[x]]

\* UsableWireSchema without the test for `properties`.
UsableWireSchemaTypeOnly(jsonSchema) ==
    "type" \in DOMAIN jsonSchema /\ jsonSchema["type"] = "object"

\* The structural test both executeModel and requestBatchAnalysis apply to
\* the stripped JSON schema before they throw "Failed to generate ...".
UsableWireSchema(jsonSchema) ==
    /\ "properties" \in DOMAIN jsonSchema
    /\ "type" \in DOMAIN jsonSchema
    /\ jsonSchema["type"] = "object"

WireSchema(s) == StripSchemaMarker(zodToJsonSchema(s))

\* Whether a zod type accepts the value.  ZodNullable and ZodOptional wrap
\* a string; ZodArray holds strings; a nested ZodObject declares optional
\* string keys.
Accepts(type, value) ==
    CASE type.typeName = "ZodString" -> value.k = "string"
      [] type.typeName = "ZodNumber" -> value.k = "number"
      [] type.typeName = "ZodBoolean" -> value.k = "boolean"
      [] type.typeName = "ZodArray" ->
             /\ value.k = "array"
             /\ ("maxLength" \in DOMAIN type) => Len(value.v) <= type.maxLength
      [] type.typeName = "ZodObject" -> value.k = "object"
      [] type.typeName = "ZodNullable" -> value.k \in {"null", "string"}
      [] type.typeName = "ZodOptional" -> value.k \in {"undefined", "string"}
      [] OTHER -> TRUE

\* The fields of `keys`, in FieldOrder.
InOrder(keys) == SelectSeq(FieldOrder, LAMBDA f : f \in keys)

\* JSON.stringify(error.errors) of a ZodError: one issue per offending path.
StringifyIssues(paths) == <<"[">> \o paths \o <<"]">>

\* schema.parse(input) for an object input: the parsed value, or the ZodError.
SchemaParse(s, input) ==
    CASE s.typeName = "ZodObject" ->
             LET bad == {f \in DOMAIN s.shape : ~Accepts(s.shape[f], Get(input, f))}
             IN  IF bad = {}
                 THEN [thrown |-> FALSE,
                       value |-> [f \in (DOMAIN s.shape) \cap (DOMAIN input) |-> input[f]]]
                 ELSE [thrown |-> TRUE, error |-> [errors |-> InOrder(bad)]]
      [] s.typeName = "ZodRecord" ->
             IF \A f \in DOMAIN input : input[f].k = "string"
             THEN [thrown |-> FALSE, value |-> input]
             ELSE [thrown |-> TRUE, error |-> [errors |-> <<"<record value>">>]]
      [] s.typeName = "ZodAny" -> [thrown |-> FALSE, value |-> input]
      [] OTHER -> [thrown |-> TRUE, error |-> [errors |-> <<"<root>">>]]

\* schema.safeParse(value).success
SchemaValid(s, value) == ~SchemaParse(s, value).thrown

----------------------------------------------------------------------------
(* fillMissingFields                                                       *)

DefaultFor(typeName) ==
    CASE typeName = "ZodArray" -> Arr(<<>>)
      [] typeName = "ZodObject" -> Obj(EmptyObject)
      [] typeName = "ZodString" -> Str("")
      [] typeName = "ZodNumber" -> Num(0)
      [] typeName = "ZodBoolean" -> Bool(FALSE)
      [] OTHER -> Null

\* FillDefaults that takes a null for a missing field as well.
FillDefaultsNullAsMissing(s, fullResponse) ==
    [key \in (DOMAIN fullResponse) \cup (DOMAIN s.shape) |->
        IF key \in DOMAIN s.shape
           /\ (~(key \in DOMAIN fullResponse) \/ fullResponse[key] \in {Undefined, Null})
        THEN DefaultFor(s.shape[key].typeName)
        ELSE fullResponse[key]]

\* FillDefaults that also puts the default in for a declared field whose
\* value the field's type does not accept.
FillDefaultsCoercing(s, fullResponse) ==
    [key \in (DOMAIN fullResponse) \cup (DOMAIN s.shape) |->
        IF key \in DOMAIN s.shape
           /\ (\/ ~(key \in DOMAIN fullResponse)
               \/ fullResponse[key] = Undefined
               \/ ~Accepts(s.shape[key], fullResponse[key]))
        THEN DefaultFor(s.shape[key].typeName)
        ELSE fullResponse[key]]

\* The loop of fillMissingFields: aiResponse with a default put in for
\* every declared field that is absent or undefined.
FillDefaults(s, fullResponse) ==
    [key \in (DOMAIN fullResponse) \cup (DOMAIN s.shape) |->
        IF key \in DOMAIN s.shape
           /\ (~(key \in DOMAIN fullResponse) \/ fullResponse[key] = Undefined)
        THEN DefaultFor(s.shape[key].typeName)
        ELSE fullResponse[key]]

\* fillMissingFields that returns the filled object without schema.parse.
fillMissingFieldsUnparsed(s, aiResponse) ==
    [thrown |-> FALSE, value |-> FillDefaults(s, SpreadValue(aiResponse))]

\* fillMissingFields that validates first and fills the parsed value after.
fillMissingFieldsValidateFirst(s, aiResponse) ==
    LET parsed == SchemaParse(s, SpreadValue(aiResponse)) IN
    IF parsed.thrown
    THEN parsed
    ELSE [thrown |-> FALSE, value |-> FillDefaults(s, parsed.value)]

\* fillMissingFields(schema, aiResponse): [thrown |-> FALSE, value |-> v] when
\* it returns v, [thrown |-> TRUE, error |-> e] when schema.parse throws e.
fillMissingFields(s, aiResponse) == SchemaParse(s, FillDefaults(s, SpreadValue(aiResponse)))

\* error?.errors ? JSON.stringify(error.errors) : error?.message || String(error)
ErrorMessage(error) ==
    IF "errors" \in DOMAIN error
    THEN StringifyIssues(error.errors)
    ELSE IF error.message # <<>> THEN error.message ELSE <<"Error">>

----------------------------------------------------------------------------
(* Inputs and backend behaviour.                                           *)

\* The text of n characters; its characters are pairwise distinct.
Text(n) == [i \in 1..n |-> ToString(i)]

Texts == {Text(n) : n \in 0..(maxSmallContextChars + MaxExtraChars)}

\* Values a backend may put in a field of the given declared type: the
\* right kind, a wrong kind, null and undefined.
FieldValues(type) ==
    LET typeName == type.typeName IN
    CASE typeName = "ZodString" -> {Str("x"), Num(7), Null}
      [] typeName = "ZodArray" -> {Arr(<<"a">>), Str("x"), Undefined}
      [] typeName = "ZodObject" -> {Obj([p |-> "1"]), Arr(<<"a">>), Null}
      [] typeName = "ZodNullable" -> {Str("x"), Null, Num(7)}
      [] typeName = "ZodOptional" -> {Str("x"), Null, Undefined}
      [] typeName = "ZodNumber" -> {Num(7), Str("x"), Undefined}
      [] typeName = "ZodBoolean" -> {Bool(TRUE), Null}
      [] OTHER -> {Null}

\* Objects a backend may answer with: any subset of the declared fields,
\* each with one of FieldValues, and possibly a key the schema does not declare.
Candidates(s) ==
    LET declared == UNION { [keys -> UNION {FieldValues(s.shape[f]) : f \in keys}] :
                            keys \in SUBSET (DOMAIN s.shape) }
        wellTyped == {c \in declared : \A f \in DOMAIN c : c[f] \in FieldValues(s.shape[f])}
    IN  wellTyped \cup {Spread(c, [extra |-> Str("x")]) : c \in {d \in wellTyped : DOMAIN d = {}}}

\* What `await this.env.AI.run(...)` of executeModel may do: throw, or
\* resolve to an envelope (null, without `response`, with a null or string
\* `response`, or with an object).
ModelReplies(s) ==
    {[kind |-> "throw", error |-> [message |-> <<"backend unavailable">>]],
     [kind |-> "throw", error |-> [message |-> <<>>]],
     [kind |-> "resolve", envelope |-> Null],
     [kind |-> "resolve", envelope |-> [response |-> Null]],
     [kind |-> "resolve", envelope |-> [response |-> Str("x")]]}
    \cup {[kind |-> "resolve", envelope |-> [response |-> Obj(c)]] : c \in Candidates(s)}

\* response?.response
ResponseOf(envelope) ==
    IF envelope \in {Null, Undefined} THEN Undefined ELSE Get(envelope, "response")


----------------------------------------------------------------------------
(* executeModel                                                            *)

SystemInstruction ==
    "You are an AI assistant specialized in extracting structured data from text into a specified JSON format."

\* The prompt: the text between the explicit delimiters.
Prompt(text) ==
    <<"You are an AI assistant tasked with analyzing the following text [...] --- TEXT START ---">>
    \o text
    \o <<"--- TEXT END --- Your response MUST be a single, valid JSON object [...]">>

\* The argument list of env.AI.run(modelName, {messages, response_format}).
RunRequest(modelName, text, jsonSchema) ==
    [kind |-> "run",
     model |-> modelName,
     text |-> text,
     messages |-> <<[role |-> "system", content |-> <<SystemInstruction>>],
                    [role |-> "user", content |-> Prompt(text)]>>,
     response_format |-> [type |-> "json_schema", json_schema |-> jsonSchema]]

NoCall == [kind |-> "none"]

\* ExecuteModelFailure that leaves a payload in the failure record.
ExecuteModelFailureWithPayload(modelName, isChunk, error) ==
    [success |-> FALSE,
     modelUsed |-> modelName,
     structuredResult |-> Obj(EmptyObject),
     error |-> <<"Model ", modelName, " failed: ">> \o ErrorMessage(error),
     isChunked |-> isChunk]

\* The record the catch block of executeModel returns.
ExecuteModelFailure(modelName, isChunk, error) ==
    [success |-> FALSE,
     modelUsed |-> modelName,
     structuredResult |-> Null,
     error |-> <<"Model ", modelName, " failed: ">> \o ErrorMessage(error),
     isChunked |-> isChunk]

\* The record executeModel returns after fillMissingFields returned.
ExecuteModelSuccess(modelName, isChunk, validatedResponse) ==
    [success |-> TRUE,
     modelUsed |-> modelName,
     structuredResult |-> Obj(validatedResponse),
     isChunked |-> isChunk]

\* The error thrown inside the try block when the JSON schema is unusable.
SchemaError == [message |-> <<"Failed to generate a valid JSON schema for the request.">>]

\* How a block of code completes: it yields a value or throws an error.
Value(v) == [thrown |-> FALSE, value |-> v]
Thrown(e) == [thrown |-> TRUE, error |-> e]

\* The try block of executeModel from the completion of
\* `await this.env.AI.run(...)` on.
ExecuteModelTry(modelName, s, isChunk, reply) ==
    IF reply.kind = "throw"
    THEN Thrown(reply.error)
    ELSE LET resultObject == ResponseOf(reply.envelope) IN
         IF resultObject \in {Undefined, Null}
         THEN Thrown([message |->
                  <<"Model ", modelName, " returned an empty or invalid response.">>])
         ELSE LET filled == fillMissingFields(s, resultObject) IN
              IF filled.thrown
              THEN Thrown(filled.error)
              ELSE Value(ExecuteModelSuccess(modelName, isChunk, filled.value))

\* ExecuteModelCatch that handles validation errors only and lets every
\* other error escape.
ExecuteModelCatchZodOnly(modelName, isChunk, completion) ==
    IF completion.thrown /\ "errors" \in DOMAIN completion.error
    THEN Value(ExecuteModelFailure(modelName, isChunk, completion.error))
    ELSE completion

\* `catch (error) { return {...} }` around the whole body of executeModel.
ExecuteModelCatch(modelName, isChunk, completion) ==
    IF completion.thrown
    THEN Value(ExecuteModelFailure(modelName, isChunk, completion.error))
    ELSE completion

----------------------------------------------------------------------------
(* chunkAndMerge                                                           *)

NoModel == ""   \* firstSuccessfulModel = null

Min(a, b) == IF a < b THEN a ELSE b

RECURSIVE SplitFromDropsRemainder(_, _, _)
\* SplitFrom that pushes full-size chunks only.
SplitFromDropsRemainder(fullText, i, chunkSize) ==
    IF i + chunkSize <= Len(fullText)
    THEN <<SubSeq(fullText, i + 1, i + chunkSize)>>
         \o SplitFromDropsRemainder(fullText, i + chunkSize, chunkSize)
    ELSE <<>>

RECURSIVE SplitFrom(_, _, _)
\* for (let i = 0; i < fullText.length; i += chunkSize) push(substring(i, i + chunkSize))
\* (i is 0-based; SubSeq is 1-based and inclusive).
SplitFrom(fullText, i, chunkSize) ==
    IF i < Len(fullText)
    THEN <<SubSeq(fullText, i + 1, Min(i + chunkSize, Len(fullText)))>>
         \o SplitFrom(fullText, i + chunkSize, chunkSize)
    ELSE <<>>

SplitChunks(fullText) == SplitFrom(fullText, 0, maxSmallContextChars)

\* MergeValue that assigns a new array instead of concatenating it.
MergeValueReplacesArrays(merged, key, newValue) ==
    LET existingValue == Get(merged, key) IN
    IF newValue.k = "array"
    THEN Arr(newValue.v)
    ELSE IF newValue.k = "object"
    THEN IF existingValue.k = "object"
         THEN Obj(Spread(existingValue.v, newValue.v))
         ELSE Obj(newValue.v)
    ELSE IF newValue # Null /\ newValue # Undefined
    THEN newValue
    ELSE IF ~(key \in DOMAIN merged)
    THEN newValue
    ELSE merged[key]

\* MergeValue that assigns every non-array, non-object value, null included.
MergeValueNullOverwrites(merged, key, newValue) ==
    LET existingValue == Get(merged, key) IN
    IF newValue.k = "array"
    THEN IF existingValue.k = "array"
         THEN Arr(existingValue.v \o newValue.v)
         ELSE Arr(newValue.v)
    ELSE IF newValue.k = "object"
    THEN IF existingValue.k = "object"
         THEN Obj(Spread(existingValue.v, newValue.v))
         ELSE Obj(newValue.v)
    ELSE newValue

\* MergeValue whose object merge lets the accumulated keys win.
MergeValueExistingWins(merged, key, newValue) ==
    LET existingValue == Get(merged, key) IN
    IF newValue.k = "array"
    THEN IF existingValue.k = "array"
         THEN Arr(existingValue.v \o newValue.v)
         ELSE Arr(newValue.v)
    ELSE IF newValue.k = "object"
    THEN IF existingValue.k = "object"
         THEN Obj(Spread(newValue.v, existingValue.v))
         ELSE Obj(newValue.v)
    ELSE IF newValue # Null /\ newValue # Undefined
    THEN newValue
    ELSE IF ~(key \in DOMAIN merged)
    THEN newValue
    ELSE merged[key]

\* The value mergedResults[key] holds after one pass of the for-in body.
MergeValue(merged, key, newValue) ==
    LET existingValue == Get(merged, key) IN
    IF newValue.k = "array"
    THEN IF existingValue.k = "array"
         THEN Arr(existingValue.v \o newValue.v)
         ELSE Arr(newValue.v)
    ELSE IF newValue.k = "object"
    THEN IF existingValue.k = "object"
         THEN Obj(Spread(existingValue.v, newValue.v))
         ELSE Obj(newValue.v)
    ELSE IF newValue # Null /\ newValue # Undefined
    THEN newValue
    ELSE IF ~(key \in DOMAIN merged)
    THEN newValue
    ELSE merged[key]

\* mergedResults after `for (const key in currentResult) {...}`.
MergeChunk(merged, currentResult) ==
    [key \in (DOMAIN merged) \cup (DOMAIN currentResult) |->
        IF key \in DOMAIN currentResult
        THEN MergeValue(merged, key, currentResult[key])
        ELSE merged[key]]

\* ChunkFailure that reports the loop index as it is (0-based).
ChunkFailureZeroBased(modelName, i, n, res) ==
    [success |-> FALSE,
     modelUsed |-> modelName,
     structuredResult |-> Null,
     error |-> <<"Chunking failure on chunk ", ToString(i), "/", ToString(n), ": ">>
               \o (IF "error" \in DOMAIN res THEN res.error ELSE <<"undefined">>),
     isChunked |-> TRUE]

\* The record returned from inside the chunk loop (i is the 0-based index).
ChunkFailure(modelName, i, n, res) ==
    [success |-> FALSE,
     modelUsed |-> modelName,
     structuredResult |-> Null,
     error |-> <<"Chunking failure on chunk ", ToString(i + 1), "/", ToString(n), ": ">>
               \o (IF "error" \in DOMAIN res THEN res.error ELSE <<"undefined">>),
     isChunked |-> TRUE]

\* ChunkFinal that hands back the merged object when its validation failed.
ChunkFinalKeepsPayload(modelName, s, merged, firstModel) ==
    LET filled == fillMissingFields(s, Obj(merged))
        used == IF firstModel # NoModel THEN firstModel ELSE modelName
    IN  IF filled.thrown
        THEN [success |-> FALSE,
              modelUsed |-> used,
              structuredResult |-> Obj(merged),
              error |-> <<"Final validation after merging failed: ">> \o ErrorMessage(filled.error),
              isChunked |-> TRUE]
        ELSE [success |-> TRUE,
              modelUsed |-> used,
              structuredResult |-> Obj(filled.value),
              isChunked |-> TRUE]

\* The try/catch that ends chunkAndMerge.
ChunkFinal(modelName, s, merged, firstModel) ==
    LET filled == fillMissingFields(s, Obj(merged))
        used == IF firstModel # NoModel THEN firstModel ELSE modelName
    IN  IF filled.thrown
        THEN [success |-> FALSE,
              modelUsed |-> used,
              structuredResult |-> Null,
              error |-> <<"Final validation after merging failed: ">> \o ErrorMessage(filled.error),
              isChunked |-> TRUE]
        ELSE [success |-> TRUE,
              modelUsed |-> used,
              structuredResult |-> Obj(filled.value),
              isChunked |-> TRUE]

----------------------------------------------------------------------------
(* analyzeText                                                             *)

\* SmallCascade with the second and third attempts exchanged.
SmallCascadeSwapped == <<Hermes2Pro, Llama4Scout, MistralSmall3_1, Llama3_3>>

\* SmallCascade that tries the first backend once more at the end.
SmallCascadeRetrying == <<Hermes2Pro, MistralSmall3_1, Llama4Scout, Llama3_3, Hermes2Pro>>

\* The four attempts of the small tier, in source order.
SmallCascade == <<Hermes2Pro, MistralSmall3_1, Llama4Scout, Llama3_3>>

\* The two full-text attempts of the large tier, in source order.
LargeCascade == <<Llama4Scout, MistralSmall3_1>>

\* ChunkModel naming the second large-context backend.
ChunkModelSecond == MistralSmall3_1

\* The backend chunkAndMerge is started with after both large attempts failed.
ChunkModel == Llama4Scout

\* UsesLargeTier with >= for >.
UsesLargeTierInclusive(text) == Len(text) >= maxSmallContextChars

\* textPayload.length > this.maxSmallContextChars
UsesLargeTier(text) == Len(text) > maxSmallContextChars

\* AllModelsFailed that reports the first attempt's error.
AllModelsFailedFirstError(res) ==
    [success |-> FALSE,
     modelUsed |-> Llama3_3,
     structuredResult |-> Null,
     error |-> <<"All models (", Hermes2Pro, ", ", MistralSmall3_1, ", ", Llama4Scout, ", ",
                 Llama3_3, ") failed to generate a valid structured response. Last error: ">>
               \o execLog[1].completion.value.error]

\* The record analyzeText builds when the fourth attempt failed too.
AllModelsFailed(res) ==
    [success |-> FALSE,
     modelUsed |-> Llama3_3,
     structuredResult |-> Null,
     error |-> <<"All models (", Hermes2Pro, ", ", MistralSmall3_1, ", ", Llama4Scout, ", ",
                 Llama3_3, ") failed to generate a valid structured response. Last error: ">>
               \o res.error]

EmptyTextError(method) ==
    [message |-> <<"Input textPayload cannot be empty for ", method, ".">>]

----------------------------------------------------------------------------
(* The state machine.                                                      *)

NoResult == [none |-> TRUE]
NoOutcome == [kind |-> "none"]
NoRefs == [given |-> FALSE]

NoRequestId == ""   \* no requestId argument (a falsy one)

ToolAtRest ==
    /\ pc = "idle"
    /\ op = "none"
    /\ path = "none"
    /\ attempt = 0
    /\ schema = ZodObjectSchema(EmptyObject)
    /\ textPayload = <<>>
    /\ modelArg = NoModel
    /\ textPayloads = <<>>
    /\ externalReferences = NoRefs
    /\ result = NoResult
    /\ textChunks = <<>>
    /\ mergedResults = EmptyObject
    /\ firstSuccessfulModel = NoModel
    /\ pending = NoCall
    /\ aiCalls = <<>>
    /\ execLog = <<>>
    /\ outcome = NoOutcome
    /\ requestId = NoRequestId
    /\ currentResults = <<>>
    /\ candidate = Undefined
    /\ repairLog = <<>>

Init ==
    /\ ToolAtRest
    /\ ActorsAtRest

\* A public method is entered on a fresh tool (the tool keeps no state
\* from one operation to the next, so a behaviour is one operation).
Enter(method, s, text, modelName) ==
    /\ pc = "idle"
    /\ op' = method
    /\ schema' = s
    /\ textPayload' = text
    /\ modelArg' = modelName
    /\ result' = NoResult
    /\ pending' = NoCall
    /\ aiCalls' = <<>>
    /\ execLog' = <<>>
    /\ UNCHANGED <<pureVars, actorVars>>

Returns(value) ==
    /\ pc' = "done"
    /\ outcome' = [kind |-> "returned", value |-> value]

Throws(error) ==
    /\ pc' = "done"
    /\ outcome' = [kind |-> "thrown", error |-> error]

Continues ==
    /\ pc' = "exec"
    /\ outcome' = NoOutcome

\* chunkAndMerge from its entry to its first `await this.executeModel(...)`.
EnterChunkAndMerge(modelName, fullText, s) ==
    LET chunks == SplitChunks(fullText) IN
    /\ path' = "chunk"
    /\ modelArg' = modelName
    /\ textChunks' = chunks
    /\ mergedResults' = EmptyObject
    /\ firstSuccessfulModel' = NoModel
    /\ attempt' = 0
    /\ IF Len(chunks) = 0
       THEN Returns(ChunkFinal(modelName, s, EmptyObject, NoModel))
       ELSE Continues

\* analyzeText(schema, textPayload) up to its first executeModel call.
AnalyzeText(s, text) ==
    /\ Enter("analyzeText", s, text, NoModel)
    /\ IF text = <<>>
       THEN Throws(EmptyTextError("analyzeText")) /\ path' = "none" /\ attempt' = 0
       ELSE Continues /\ path' = (IF UsesLargeTier(text) THEN "large" ELSE "small")
                      /\ attempt' = 1
    /\ textChunks' = <<>>
    /\ mergedResults' = EmptyObject
    /\ firstSuccessfulModel' = NoModel
    /\ UNCHANGED <<batchArgs, requestId>>

\* AnalyzeTextWithModel without the test for an empty text.
AnalyzeTextWithModelUnchecked(s, text, modelName) ==
    /\ Enter("analyzeTextWithModel", s, text, modelName)
    /\ Continues
    /\ path' = "direct"
    /\ attempt' = 1
    /\ textChunks' = <<>>
    /\ mergedResults' = EmptyObject
    /\ firstSuccessfulModel' = NoModel
    /\ UNCHANGED <<batchArgs, requestId>>

\* analyzeTextWithModel(schema, textPayload, modelName) up to executeModel.
AnalyzeTextWithModel(s, text, modelName) ==
    /\ Enter("analyzeTextWithModel", s, text, modelName)
    /\ IF text = <<>>
       THEN Throws(EmptyTextError("analyzeTextWithModel")) /\ path' = "none"
       ELSE Continues /\ path' = "direct"
    /\ attempt' = 1
    /\ textChunks' = <<>>
    /\ mergedResults' = EmptyObject
    /\ firstSuccessfulModel' = NoModel
    /\ UNCHANGED <<batchArgs, requestId>>

\* chunkAndMerge(modelName, fullText, schema) called on its own.
ChunkAndMerge(modelName, fullText, s) ==
    /\ Enter("chunkAndMerge", s, fullText, modelName)
    /\ EnterChunkAndMerge(modelName, fullText, s)
    /\ UNCHANGED <<batchArgs, requestId>>

\* The arguments of the executeModel call control is at.
CurrentModel ==
    CASE path = "small" -> SmallCascade[attempt]
      [] path = "large" -> LargeCascade[attempt]
      [] OTHER -> modelArg

CurrentText == IF path = "chunk" THEN textChunks[attempt + 1] ELSE textPayload

CurrentIsChunk == path = "chunk"

\* analyzeText, small tier, after an executeModel call returned res.
AnalyzeTextSmallAfter(res) ==
    /\ IF res.success
       THEN Returns(res) /\ UNCHANGED attempt
       ELSE IF attempt < Len(SmallCascade)
       THEN Continues /\ attempt' = attempt + 1
       ELSE Returns(AllModelsFailed(res)) /\ UNCHANGED attempt
    /\ UNCHANGED <<path, modelArg, chunkVars>>

\* analyzeText, large tier, after an executeModel call returned res.
AnalyzeTextLargeAfter(res) ==
    IF res.success
    THEN Returns(res) /\ UNCHANGED <<attempt, path, modelArg, chunkVars>>
    ELSE IF attempt < Len(LargeCascade)
    THEN Continues /\ attempt' = attempt + 1 /\ UNCHANGED <<path, modelArg, chunkVars>>
    ELSE EnterChunkAndMerge(ChunkModel, textPayload, schema)

\* ChunkAndMergeAfter that skips a failed chunk and goes on with the next.
ChunkAndMergeAfterSkipsFailed(res) ==
    LET n == Len(textChunks)
        failed == ~res.success \/ res.structuredResult = Null
        merged == IF failed
                  THEN mergedResults
                  ELSE MergeChunk(mergedResults, res.structuredResult.v)
        first == IF failed \/ firstSuccessfulModel # NoModel
                 THEN firstSuccessfulModel
                 ELSE res.modelUsed
    IN  /\ mergedResults' = merged
        /\ firstSuccessfulModel' = first
        /\ attempt' = attempt + 1
        /\ IF attempt + 1 < n
           THEN Continues
           ELSE Returns(ChunkFinal(modelArg, schema, merged, first))
        /\ UNCHANGED <<path, modelArg, textChunks>>

\* The body of chunkAndMerge's chunk loop after executeModel returned res
\* for chunk `attempt`, and the final validation once the loop is over.
ChunkAndMergeAfter(res) ==
    LET n == Len(textChunks) IN
    /\ IF ~res.success \/ res.structuredResult = Null
       THEN /\ Returns(ChunkFailure(modelArg, attempt, n, res))
            /\ UNCHANGED <<attempt, mergedResults, firstSuccessfulModel>>
       ELSE LET merged == MergeChunk(mergedResults, res.structuredResult.v)
                first == IF firstSuccessfulModel = NoModel
                         THEN res.modelUsed
                         ELSE firstSuccessfulModel
            IN  /\ mergedResults' = merged
                /\ firstSuccessfulModel' = first
                /\ attempt' = attempt + 1
                /\ IF attempt + 1 < n
                   THEN Continues
                   ELSE Returns(ChunkFinal(modelArg, schema, merged, first))
    /\ UNCHANGED <<path, modelArg, textChunks>>

\* What the caller of executeModel does when executeModel completes: an
\* error executeModel let escape propagates through the caller (no caller
\* catches), a returned record is inspected.
AfterExecute(completion) ==
    /\ execLog' = Append(execLog, [model |-> CurrentModel, text |-> CurrentText,
                                   isChunk |-> CurrentIsChunk, completion |-> completion])
    /\ IF completion.thrown
       THEN /\ Throws(completion.error)
            /\ UNCHANGED <<result, attempt, path, modelArg, chunkVars>>
       ELSE /\ result' = completion.value
            /\ CASE path = "small" -> AnalyzeTextSmallAfter(completion.value)
                 [] path = "large" -> AnalyzeTextLargeAfter(completion.value)
                 [] path = "chunk" -> ChunkAndMergeAfter(completion.value)
                 [] OTHER -> /\ Returns(completion.value)
                             /\ UNCHANGED <<attempt, path, modelArg, chunkVars>>
    /\ UNCHANGED <<op, schema, textPayload, batchArgs, requestId, pureVars, actorVars>>

\* ExecuteModelCall that issues the backend call twice without awaiting the first.
ExecuteModelCallHedged ==
    /\ pc = "exec"
    /\ LET jsonSchema == WireSchema(schema) IN
       IF ~UsableWireSchema(jsonSchema)
       THEN /\ AfterExecute(ExecuteModelCatch(CurrentModel, CurrentIsChunk,
                                               Thrown(SchemaError)))
            /\ UNCHANGED <<pending, aiCalls>>
       ELSE /\ pending' = RunRequest(CurrentModel, CurrentText, jsonSchema)
            /\ aiCalls' = Append(Append(aiCalls, pending'), pending')
            /\ pc' = "await"
            /\ UNCHANGED <<op, path, attempt, schema, textPayload, modelArg, batchArgs,
                           result, chunkVars, execLog, outcome, requestId, pureVars, actorVars>>

\* executeModel from its entry to `await this.env.AI.run(...)`: an unusable
\* JSON schema throws inside the try block, so the catch block returns.
ExecuteModelCall ==
    /\ pc = "exec"
    /\ LET jsonSchema == WireSchema(schema) IN
       IF ~UsableWireSchema(jsonSchema)
       THEN /\ AfterExecute(ExecuteModelCatch(CurrentModel, CurrentIsChunk,
                                               Thrown(SchemaError)))
            /\ UNCHANGED <<pending, aiCalls>>
       ELSE /\ pending' = RunRequest(CurrentModel, CurrentText, jsonSchema)
            /\ aiCalls' = Append(aiCalls, pending')
            /\ pc' = "await"
            /\ UNCHANGED <<op, path, attempt, schema, textPayload, modelArg, batchArgs,
                           result, chunkVars, execLog, outcome, requestId, pureVars, actorVars>>

\* The backend call of executeModel completes.
ModelReply ==
    /\ pc = "await"
    /\ pending.kind = "run"
    /\ \E reply \in ModelReplies(schema) :
          AfterExecute(ExecuteModelCatch(CurrentModel, CurrentIsChunk,
              ExecuteModelTry(CurrentModel, schema, CurrentIsChunk, reply)))
    /\ pending' = NoCall
    /\ UNCHANGED aiCalls

----------------------------------------------------------------------------
(* requestBatchAnalysis                                                    *)

\* Texts a batch may hold: empty, whitespace only, and an ordinary one.
BatchTexts == {<<>>, <<" ">>, Text(1)}

MaxBatch == 2

BatchPayloads == UNION {[1..n -> BatchTexts] : n \in 0..MaxBatch}

\* The optional argument: not given, or a list (an empty list is truthy).
BatchReferences ==
    {NoRefs} \cup {[given |-> TRUE, refs |-> r] :
                     r \in UNION {[1..n -> {"ref"}] : n \in 0..MaxBatch}}

\* BatchPrecondition without the test for an empty text.
BatchPreconditionAllowsEmpty(texts, refs) ==
    IF Len(texts) = 0
    THEN "At least one text payload is required for batch analysis."
    ELSE IF refs.given /\ Len(refs.refs) # Len(texts)
    THEN "Length of externalReferences must match the length of textPayloads."
    ELSE "ok"

\* The precondition that fails first, or "ok".
BatchPrecondition(texts, refs) ==
    IF Len(texts) = 0
    THEN "At least one text payload is required for batch analysis."
    ELSE IF \E i \in 1..Len(texts) : texts[i] = <<>>
    THEN "All text payloads in the batch must be non-empty."
    ELSE IF refs.given /\ Len(refs.refs) # Len(texts)
    THEN "Length of externalReferences must match the length of textPayloads."
    ELSE "ok"

\* textPayloads.map((text, index) => ({messages, response_format, external_reference?}))
BatchRequests(texts, refs, jsonSchema) ==
    [index \in 1..Len(texts) |->
        LET item == [messages |-> <<[role |-> "system", content |-> <<SystemInstruction>>],
                                    [role |-> "user", content |-> Prompt(texts[index])]>>,
                     response_format |-> [type |-> "json_schema", json_schema |-> jsonSchema]]
        IN  IF refs.given
            THEN Spread(item, [external_reference |-> refs.refs[index]])
            ELSE item]

\* requestBatchAnalysis up to `await this.env.AI.run(modelName, {requests}, {queueRequest: true})`.
RequestBatchAnalysis(modelName, texts, s, refs) ==
    /\ Enter("requestBatchAnalysis", s, <<>>, modelName)
    /\ textPayloads' = texts
    /\ externalReferences' = refs
    /\ path' = "batch"
    /\ attempt' = 0
    /\ textChunks' = <<>>
    /\ mergedResults' = EmptyObject
    /\ firstSuccessfulModel' = NoModel
    /\ UNCHANGED requestId
    /\ LET pre == BatchPrecondition(texts, refs)
           jsonSchema == WireSchema(s)
       IN  IF pre # "ok"
           THEN Throws([message |-> <<pre>>])
           ELSE IF ~UsableWireSchema(jsonSchema)
           THEN Throws([message |->
                    <<"Failed to generate a valid JSON schema for the batch request.">>])
           ELSE /\ pc' = "await"
                /\ outcome' = NoOutcome

\* The request of a batch submission that passed its preconditions.
BatchSubmitRequest ==
    [kind |-> "queue",
     model |-> modelArg,
     requests |-> BatchRequests(textPayloads, externalReferences, WireSchema(schema)),
     queueRequest |-> TRUE]

\* Acknowledgments of the batch endpoint: throw, null, queued with an id,
\* queued without one or with an empty one, and another status.
BatchAcks ==
    {[kind |-> "throw", error |-> [message |-> <<"backend unavailable">>]],
     [kind |-> "resolve", envelope |-> Null],
     [kind |-> "resolve", envelope |-> [status |-> "queued", request_id |-> "req-1"]],
     [kind |-> "resolve", envelope |-> [status |-> "queued"]],
     [kind |-> "resolve", envelope |-> [status |-> "queued", request_id |-> ""]],
     [kind |-> "resolve", envelope |-> [status |-> "running", request_id |-> "req-1"]]}

\* NotQueued that looks at the status only.
NotQueuedStatusOnly(envelope) ==
    \/ envelope = Null
    \/ ~("status" \in DOMAIN envelope)
    \/ envelope.status # "queued"

\* response?.status !== "queued" || !response?.request_id
NotQueued(envelope) ==
    \/ envelope = Null
    \/ ~("status" \in DOMAIN envelope)
    \/ envelope.status # "queued"
    \/ ~("request_id" \in DOMAIN envelope)
    \/ envelope.request_id = ""

\* `${response?.status}`
StatusText(envelope) ==
    IF envelope = Null \/ ~("status" \in DOMAIN envelope) THEN "undefined" ELSE envelope.status

\* The batch submission is issued (the call is made when the method reaches it).
BatchSubmit ==
    /\ pc = "await"
    /\ path = "batch"
    /\ pending = NoCall
    /\ pending' = BatchSubmitRequest
    /\ aiCalls' = Append(aiCalls, pending')
    /\ UNCHANGED <<pc, op, path, attempt, schema, textPayload, modelArg, batchArgs, result,
                   chunkVars, execLog, outcome, requestId, pureVars, actorVars>>

\* The batch endpoint answers: a rejection propagates, any acknowledgment
\* other than queued-with-id throws, otherwise the response is returned.
BatchAck ==
    /\ pc = "await"
    /\ pending.kind = "queue"
    /\ \E ack \in BatchAcks :
          IF ack.kind = "throw"
          THEN /\ Throws(ack.error)
               /\ result' = NoResult
          ELSE /\ result' = ack.envelope
               /\ IF NotQueued(ack.envelope)
                  THEN Throws([message |->
                          <<"Failed to queue batch analysis request. Received status: ",
                            StatusText(ack.envelope)>>])
                  ELSE Returns(ack.envelope)
    /\ pending' = NoCall
    /\ UNCHANGED <<op, path, attempt, schema, textPayload, modelArg, batchArgs,
                   chunkVars, aiCalls, execLog, requestId, pureVars, actorVars>>

----------------------------------------------------------------------------

Next ==
    \/ \E s \in Schemas, text \in Texts : AnalyzeText(s, text)
    \/ \E s \in Schemas, text \in Texts, modelName \in ModelNames :
          AnalyzeTextWithModel(s, text, modelName)
    \/ \E s \in Schemas, text \in Texts, modelName \in ModelNames :
          ChunkAndMerge(modelName, text, s)
    \/ \E s \in Schemas, texts \in BatchPayloads, refs \in BatchReferences,
          modelName \in ModelNames : RequestBatchAnalysis(modelName, texts, s, refs)
    \/ ExecuteModelCall
    \/ ModelReply
    \/ BatchSubmit
    \/ BatchAck

Spec == Init /\ [][Next]_vars

----------------------------------------------------------------------------
(* Properties.                                                             *)

Returned == pc = "done" /\ outcome.kind = "returned"

\* The record the i-th executeModel invocation returned.
ExecResult(i) == execLog[i].completion.value

LastExec == ExecResult(Len(execLog))

\* The operations that extract through executeModel.
ExtractionOps == {"analyzeText", "analyzeTextWithModel", "chunkAndMerge"}

\* analyzeText got past its empty-text check with a text within the budget.
SmallRun ==
    op = "analyzeText" /\ textPayload # <<>> /\ Len(textPayload) <= maxSmallContextChars

\* analyzeText got a text beyond the budget.
LargeRun == op = "analyzeText" /\ Len(textPayload) > maxSmallContextChars

ExpectedSmallOrder == <<"Hermes2Pro", "MistralSmall3_1", "Llama4Scout", "Llama3_3">>

\* C1: for a text within the budget, analyzeText invokes executeModel on
\* Hermes2Pro, MistralSmall3_1, Llama4Scout, Llama3_3 in that order, each on
\* the full text; every invocation before the last one failed, so nothing is
\* invoked after the first success, and the first successful record is
\* what analyzeText returns.
C1_SmallCascadeShortCircuit ==
    SmallRun =>
        /\ Len(execLog) <= 4
        /\ Len(aiCalls) <= Len(execLog) + 1
        /\ \A i \in 1..Len(execLog) :
              /\ execLog[i].model = ExpectedSmallOrder[i]
              /\ execLog[i].text = textPayload
              /\ ~execLog[i].isChunk
              /\ ~execLog[i].completion.thrown
              /\ i < Len(execLog) => ~ExecResult(i).success
        /\ \A j \in 1..Len(aiCalls) :
              /\ aiCalls[j].model = ExpectedSmallOrder[j]
              /\ aiCalls[j].text = textPayload
        /\ (Len(execLog) > 0 /\ LastExec.success) =>
              /\ pc = "done"
              /\ outcome = [kind |-> "returned", value |-> LastExec]
        /\ (Returned /\ outcome.value.success) => outcome.value = LastExec

\* C1 witness: the second backend succeeded after the first failed, and
\* analyzeText is done after exactly two backend calls.
C1_Witness ==
    /\ SmallRun
    /\ Returned
    /\ Len(execLog) = 2
    /\ Len(aiCalls) = 2
    /\ ~ExecResult(1).success
    /\ ExecResult(2).success
    /\ outcome.value.modelUsed = "MistralSmall3_1"

\* C2: beyond the budget analyzeText tries Llama4Scout then MistralSmall3_1
\* on the full text and enters chunkAndMerge, with Llama4Scout, only after
\* both failed; within the budget (equality included) only the small
\* cascade runs and chunkAndMerge is never entered.
C2_StrategyBySize ==
    (op = "analyzeText" /\ textPayload # <<>>) =>
        IF Len(textPayload) > maxSmallContextChars
        THEN /\ path \in {"large", "chunk"}
             /\ \A i \in 1..Len(execLog) :
                   /\ i = 1 => (execLog[i].model = "Llama4Scout" /\ ~execLog[i].isChunk)
                   /\ i = 2 => (execLog[i].model = "MistralSmall3_1" /\ ~execLog[i].isChunk)
                   /\ i <= 2 => execLog[i].text = textPayload
                   /\ i > 2 => (execLog[i].model = "Llama4Scout" /\ execLog[i].isChunk)
             /\ path = "chunk" =>
                   /\ Len(execLog) >= 2
                   /\ ~ExecResult(1).success
                   /\ ~ExecResult(2).success
                   /\ modelArg = "Llama4Scout"
             /\ (Len(execLog) >= 2 /\ ~ExecResult(1).success /\ ~ExecResult(2).success) =>
                   path = "chunk"
        ELSE /\ path = "small"
             /\ \A i \in 1..Len(execLog) :
                   ~execLog[i].isChunk /\ execLog[i].model = ExpectedSmallOrder[i]
             /\ \A j \in 1..Len(aiCalls) : aiCalls[j].text = textPayload

\* C2 witness: a text beyond the budget whose two full-text attempts failed
\* and whose first chunk has been extracted.
C2_Witness ==
    /\ LargeRun
    /\ path = "chunk"
    /\ Len(execLog) = 3
    /\ execLog[3].isChunk
    /\ Len(aiCalls) = 3

\* Whether a result record holds a payload exactly when it reports success.
PayloadIffSuccess(record) == (record.structuredResult # Null) <=> record.success

\* C3: in every record executeModel returned and in every record an
\* extraction method returned, structuredResult is non-null iff success.
C3_PayloadIffSuccess ==
    (op \in ExtractionOps) =>
        /\ \A i \in 1..Len(execLog) :
              ~execLog[i].completion.thrown => PayloadIffSuccess(ExecResult(i))
        /\ Returned => PayloadIffSuccess(outcome.value)

\* C3 witness: a chunk-and-merge that failed on its second chunk, after a
\* first chunk that succeeded: both kinds of record have been returned.
C3_Witness ==
    /\ op \in ExtractionOps
    /\ Returned
    /\ ~outcome.value.success
    /\ Len(execLog) >= 2
    /\ ExecResult(Len(execLog) - 1).success
    /\ ExecResult(Len(execLog) - 1).structuredResult # Null

\* C4: a non-null structuredResult of a returned record passes the schema's
\* validation, and is what schema.parse yields on it.
C4_PayloadValid ==
    (op \in ExtractionOps /\ Returned /\ outcome.value.structuredResult # Null) =>
        /\ SchemaValid(schema, outcome.value.structuredResult.v)
        /\ SchemaParse(schema, outcome.value.structuredResult.v).value
              = outcome.value.structuredResult.v

\* C4 witness: a merged result returned by the chunk-and-merge escalation
\* of analyzeText, with a field a default was synthesized for.
C4_Witness ==
    /\ LargeRun
    /\ Returned
    /\ outcome.value.success
    /\ outcome.value.isChunked
    /\ \E f \in DOMAIN outcome.value.structuredResult.v :
          outcome.value.structuredResult.v[f] = DefaultFor(schema.shape[f].typeName)

\* C5: no error escapes executeModel once the backend has been called: a
\* backend that throws, answers with no body or null, or answers with a
\* payload that fails repair gives a record with success=false,
\* structuredResult=null, the backend id and isChunk it was given, and a
\* non-empty error.
C5_ExecuteModelReturnsFailures ==
    (op \in ExtractionOps) =>
        /\ \A i \in 1..Len(execLog) :
              /\ ~execLog[i].completion.thrown
              /\ ~ExecResult(i).success =>
                    /\ ExecResult(i).structuredResult = Null
                    /\ ExecResult(i).modelUsed = execLog[i].model
                    /\ ExecResult(i).isChunked = execLog[i].isChunk
                    /\ Len(ExecResult(i).error) > 3
        /\ (pc = "done" /\ aiCalls # <<>>) => outcome.kind = "returned"

\* Whether the i-th executeModel invocation failed with `part` in its error.
FailedWith(i, part) == ~ExecResult(i).success /\ Contains(ExecResult(i).error, part)

\* C5 witness: three executeModel invocations failed after a backend call:
\* one whose backend threw, one that got an empty answer and one whose
\* payload failed validation.
C5_Witness ==
    /\ op \in ExtractionOps
    /\ Len(aiCalls) >= 3
    /\ \E i \in 1..Len(execLog) : FailedWith(i, <<"backend unavailable">>)
    /\ \E i \in 1..Len(execLog) : FailedWith(i, <<"[">>)
    /\ \E i \in 1..Len(execLog) : FailedWith(i, <<" returned an empty or invalid response.">>)

\* The schema's JSON Schema lacks `properties` or its `type` is not "object".
UnusableSchema(s) ==
    LET jsonSchema == zodToJsonSchema(s) IN
    \/ ~("properties" \in DOMAIN jsonSchema)
    \/ ~("type" \in DOMAIN jsonSchema)
    \/ jsonSchema["type"] # "object"

\* C6: with an unusable schema, analyzeText and analyzeTextWithModel (given
\* a non-empty text) end by throwing, not by returning a record.
C6_UnusableSchemaThrows ==
    (/\ op \in {"analyzeText", "analyzeTextWithModel"}
     /\ textPayload # <<>>
     /\ UnusableSchema(schema)
     /\ pc = "done") => outcome.kind = "thrown"

\* C7: with an unusable schema no call to env.AI.run is made or outstanding,
\* in executeModel, in both tiers of analyzeText, in chunkAndMerge and in
\* requestBatchAnalysis.
C7_NoCallOnUnusableSchema ==
    (op # "none" /\ UnusableSchema(schema)) => (aiCalls = <<>> /\ pending = NoCall)

\* C7 witness: analyzeText on a text beyond the budget with an unusable
\* schema went through both full-text attempts and a chunk attempt and is
\* done, without a backend call.
C7_Witness ==
    /\ LargeRun
    /\ UnusableSchema(schema)
    /\ pc = "done"
    /\ Len(execLog) = 3
    /\ execLog[3].isChunk
    /\ aiCalls = <<>>

\* The last Len(part) tokens of text are part.
EndsWith(text, part) ==
    /\ Len(part) <= Len(text)
    /\ SubSeq(text, Len(text) - Len(part) + 1, Len(text)) = part

\* C8: when all four attempts of the small tier failed, analyzeText returns
\* success=false, structuredResult=null, modelUsed=Llama3_3 and an error
\* that lists the four backends and ends with the fourth attempt's error.
C8_SmallExhaustion ==
    (/\ SmallRun
     /\ pc = "done"
     /\ Len(execLog) = 4
     /\ \A i \in 1..4 : ~execLog[i].completion.thrown /\ ~ExecResult(i).success) =>
        /\ outcome.kind = "returned"
        /\ ~outcome.value.success
        /\ outcome.value.structuredResult = Null
        /\ outcome.value.modelUsed = "Llama3_3"
        /\ \A i \in 1..4 :
              ExpectedSmallOrder[i] \in
                  {outcome.value.error[j] :
                      j \in 1..(Len(outcome.value.error) - Len(ExecResult(4).error))}
        /\ EndsWith(outcome.value.error, ExecResult(4).error)
        /\ \A i \in 1..3 :
              ExecResult(i).error # ExecResult(4).error
              /\ ~EndsWith(outcome.value.error, ExecResult(i).error)

\* C8 witness: the four attempts failed for different reasons, the first
\* by a backend error and the fourth by validation.
C8_Witness ==
    /\ SmallRun
    /\ Returned
    /\ Len(execLog) = 4
    /\ FailedWith(1, <<"backend unavailable">>)
    /\ FailedWith(4, <<"[">>)
    /\ ~outcome.value.success

\* analyzeText on a text beyond the budget returned a failure.
LargeExhausted == LargeRun /\ Returned /\ ~outcome.value.success

ChunkExecs == SelectSeq(execLog, LAMBDA e : e.isChunk)

\* ceil(L / C) for the text and the budget.
ExpectedChunks == (Len(textPayload) + maxSmallContextChars - 1) \div maxSmallContextChars

\* C10: chunks are extracted one at a time in index order; every chunk
\* before the last extracted one succeeded; when chunk i of n fails,
\* chunkAndMerge is done at once with success=false, structuredResult=null
\* and an error "chunk i/n" followed by that chunk's error, and no backend
\* call has been made for a later chunk.
C10_ChunkFailFast ==
    (path = "chunk") =>
        LET done == Len(ChunkExecs)
            fullCalls == Len(execLog) - done
        IN  /\ done <= ExpectedChunks
            /\ \A i \in 1..done :
                  /\ ChunkExecs[i].text =
                        SubSeq(textPayload, (i - 1) * maxSmallContextChars + 1,
                               Min(i * maxSmallContextChars, Len(textPayload)))
                  /\ i < done => ChunkExecs[i].completion.value.success
            /\ Len(aiCalls) <= Len(execLog) + 1
            /\ (done > 0 /\ ~ChunkExecs[done].completion.value.success) =>
                  /\ Returned
                  /\ ~outcome.value.success
                  /\ outcome.value.structuredResult = Null
                  /\ outcome.value.error =
                        <<"Chunking failure on chunk ", ToString(done), "/",
                          ToString(ExpectedChunks), ": ">>
                        \o ChunkExecs[done].completion.value.error
                  /\ Len(aiCalls) <= fullCalls + done
                  /\ \A j \in 1..Len(aiCalls) :
                        j > fullCalls => aiCalls[j].text = ChunkExecs[j - fullCalls].text

\* C10 witness: chunk 2 of 3 failed after chunk 1 succeeded; chunk 3 was
\* never extracted.
C10_Witness ==
    /\ path = "chunk"
    /\ Returned
    /\ ExpectedChunks = 3
    /\ Len(ChunkExecs) = 2
    /\ ChunkExecs[1].completion.value.success
    /\ ~ChunkExecs[2].completion.value.success
    /\ Len(aiCalls) = Len(execLog)

RECURSIVE FoldChunks(_, _)
\* The fold of the first n chunk extractions' payloads, in extraction order,
\* starting from the empty accumulator.
FoldChunks(execs, n) ==
    IF n = 0
    THEN EmptyObject
    ELSE MergeChunk(FoldChunks(execs, n - 1),
                    execs[n].completion.value.structuredResult.v)

\* The characters of chunk i (1-based) of the text, by position.
ChunkSlice(text, i) ==
    SubSeq(text, (i - 1) * maxSmallContextChars + 1,
           Min(i * maxSmallContextChars, Len(text)))

\* C11: when the chunked strategy returns success=true, every one of the
\* ceil(L/C) chunks was extracted exactly once, in index order, each with
\* success and a payload, and structuredResult is the repair of the fold of
\* all those payloads (not of a prefix of them).
C11_NoPartialMerge ==
    (path = "chunk" /\ Returned /\ outcome.value.success) =>
        /\ Len(ChunkExecs) = ExpectedChunks
        /\ Len(textChunks) = ExpectedChunks
        /\ \A i \in 1..Len(ChunkExecs) :
              /\ ChunkExecs[i].text = ChunkSlice(textPayload, i)
              /\ ChunkExecs[i].completion.value.success
              /\ ChunkExecs[i].completion.value.structuredResult # Null
        /\ Len(SelectSeq(aiCalls, LAMBDA c : c.kind = "run")) <= Len(execLog)
        /\ IF \A i \in 1..Len(ChunkExecs) :
                 /\ ChunkExecs[i].completion.value.success
                 /\ ChunkExecs[i].completion.value.structuredResult # Null
           THEN LET repaired == fillMissingFields(schema,
                                   Obj(FoldChunks(ChunkExecs, Len(ChunkExecs))))
                IN  /\ ~repaired.thrown
                    /\ outcome.value.structuredResult = Obj(repaired.value)
           ELSE FALSE

\* C11 witness: a three-chunk text whose chunks all succeeded, returned as a
\* success whose merged sequence holds one element per chunk.
C11_Witness ==
    /\ path = "chunk"
    /\ Returned
    /\ outcome.value.success
    /\ ExpectedChunks = 3
    /\ Len(ChunkExecs) = 3
    /\ "tags" \in DOMAIN outcome.value.structuredResult.v
    /\ outcome.value.structuredResult.v["tags"] = Arr(<<"a", "a", "a">>)

RECURSIVE Concatenation(_, _)
\* The first n chunks joined in index order.
Concatenation(chunks, n) ==
    IF n = 0 THEN <<>> ELSE Concatenation(chunks, n - 1) \o chunks[n]

\* C12: the chunks are ceil(L/C) in number, each of exactly C characters
\* except the last, which has between 1 and C; chunk i holds the characters
\* at positions (i-1)*C+1 .. min(i*C, L), so the chunks are contiguous and do
\* not overlap, and their concatenation in index order is the text.
C12_ChunkReconstruction ==
    (path = "chunk") =>
        LET n == Len(textChunks)
            L == Len(textPayload)
            C == maxSmallContextChars
        IN  /\ n * C >= L
            /\ (n - 1) * C < L \/ (n = 0 /\ L = 0)
            /\ \A i \in 1..n :
                  /\ i < n => Len(textChunks[i]) = C
                  /\ Len(textChunks[i]) >= 1
                  /\ Len(textChunks[i]) <= C
                  /\ textChunks[i] = ChunkSlice(textPayload, i)
            /\ Concatenation(textChunks, n) = textPayload

\* C12 witness: a text of two full chunks and a shorter last one.
C12_Witness ==
    /\ path = "chunk"
    /\ Len(textChunks) = 3
    /\ Len(textChunks[3]) < maxSmallContextChars
    /\ Len(textPayload) = 2 * maxSmallContextChars + 1

----------------------------------------------------------------------------
(* The merge loop of chunkAndMerge on its own: the for-in body of lines    *)
(* 177-199 folded over any ordered list of chunk payloads, whatever the    *)
(* kinds of their values.                                                  *)

MaxChunks == 3

\* Values a chunk payload may hold under the key "f": null, undefined, two
\* scalars (one of them falsy), two sequences sharing an element, and two
\* objects sharing a key whose values are objects themselves.
MergeFieldValues ==
    {Null, Undefined, Str("x"), Num(0),
     Arr(<<"a">>), Arr(<<"b", "a">>),
     Obj([p |-> Obj([r |-> Str("1")])]),
     Obj([p |-> Obj([s |-> Str("2")]), q |-> Str("3")])}

\* result.structuredResult of one chunk: "f" absent or holding any value,
\* "g" absent or holding a string.
ChunkPayloads ==
    {EmptyObject}
    \cup {[key \in {"f"} |-> v] : v \in MergeFieldValues}
    \cup {[key \in {"g"} |-> Str("z")]}
    \cup {[key \in {"f", "g"} |-> IF key = "f" THEN v ELSE Str("z")] : v \in MergeFieldValues}

\* The loop starts with mergedResults = {} (line 155) and i = 0.
InitMerge ==
    /\ pc = "merge"
    /\ op = "chunkAndMerge"
    /\ path = "chunk"
    /\ attempt = 0
    /\ schema = ZodObjectSchema(EmptyObject)
    /\ textPayload = <<>>
    /\ modelArg = NoModel
    /\ textPayloads = <<>>
    /\ externalReferences = NoRefs
    /\ result = NoResult
    /\ textChunks = <<>>
    /\ mergedResults = EmptyObject
    /\ firstSuccessfulModel = NoModel
    /\ pending = NoCall
    /\ aiCalls = <<>>
    /\ execLog = <<>>
    /\ outcome = NoOutcome
    /\ requestId = NoRequestId
    /\ currentResults \in UNION {[1..n -> ChunkPayloads] : n \in 0..MaxChunks}
    /\ candidate = Undefined
    /\ repairLog = <<>>
    /\ ActorsAtRest

\* One pass of the chunk loop's merge: currentResult is folded into
\* mergedResults and i advances.
MergeNextChunk ==
    /\ pc = "merge"
    /\ attempt < Len(currentResults)
    /\ mergedResults' = MergeChunk(mergedResults, currentResults[attempt + 1])
    /\ attempt' = attempt + 1
    /\ UNCHANGED <<pc, op, path, schema, textPayload, modelArg, batchArgs, result,
                   textChunks, firstSuccessfulModel, pending, aiCalls, execLog,
                   outcome, requestId, pureVars, actorVars>>

NextMerge == MergeNextChunk

SpecMerge == InitMerge /\ [][NextMerge]_vars

MergeKeys == {"f", "g"}

\* Whether the chunk payload holds the key with a value of that kind.
HoldsKind(payload, key, kinds) == key \in DOMAIN payload /\ payload[key].k \in kinds

RECURSIVE ConcatField(_, _, _)
\* The sequences the first n payloads hold under the key, joined in order.
ConcatField(payloads, key, n) ==
    IF n = 0 THEN <<>> ELSE ConcatField(payloads, key, n - 1) \o payloads[n][key].v

\* C13: when every chunk folded so far holds a sequence under a key, the
\* accumulator holds under that key the concatenation of those sequences in
\* chunk order, duplicates kept.
C13_SequencesConcatenate ==
    (pc = "merge" /\ attempt >= 1) =>
        \A key \in MergeKeys :
            (\A i \in 1..attempt : HoldsKind(currentResults[i], key, {"array"})) =>
                /\ key \in DOMAIN mergedResults
                /\ mergedResults[key] = Arr(ConcatField(currentResults, key, attempt))

\* C13 witness: three chunks with sequences under "f"; the merged sequence
\* holds "a" three times, in chunk order.
C13_Witness ==
    /\ pc = "merge"
    /\ attempt = 3
    /\ \A i \in 1..3 : HoldsKind(currentResults[i], "f", {"array"})
    /\ mergedResults["f"] = Arr(<<"a", "b", "a", "a">>)

Scalars == {"string", "number", "boolean"}

\* The chunks among the first n that hold the key with a value that is
\* neither null nor undefined.
NonNullChunks(payloads, key, n) ==
    {i \in 1..n : key \in DOMAIN payloads[i] /\ payloads[i][key] \notin {Null, Undefined}}

Last(indices) == CHOOSE i \in indices : \A j \in indices : j <= i

\* C14: when the last chunk to hold a key with a value that is neither null
\* nor undefined holds a scalar there, the accumulator holds that scalar: a
\* null or an undefined of a later chunk has not replaced it.
C14_LastNonNullScalarWins ==
    (pc = "merge" /\ attempt >= 1) =>
        \A key \in MergeKeys :
            LET nonNull == NonNullChunks(currentResults, key, attempt) IN
            (nonNull # {} /\ currentResults[Last(nonNull)][key].k \in Scalars) =>
                /\ key \in DOMAIN mergedResults
                /\ mergedResults[key] = currentResults[Last(nonNull)][key]

\* C14 witness: "f" is "x", then 0, then null; the accumulator holds 0.
C14_Witness ==
    /\ pc = "merge"
    /\ attempt = 3
    /\ currentResults[1] = [key \in {"f"} |-> Str("x")]
    /\ currentResults[2] = [key \in {"f"} |-> Num(0)]
    /\ HoldsKind(currentResults[3], "f", {"null"})
    /\ mergedResults["f"] = Num(0)

RECURSIVE FoldPayloads(_, _)
\* The accumulator after the first n payloads.
FoldPayloads(payloads, n) ==
    IF n = 0
    THEN EmptyObject
    ELSE MergeChunk(FoldPayloads(payloads, n - 1), payloads[n])

\* C15: when the chunk just folded holds an object under a key, the
\* accumulator holds under that key: the chunk's object as it is if the
\* accumulator held no object there before (absent, null, scalar or
\* sequence); otherwise the object with the keys of both, each key of the
\* chunk's object with the chunk's value (nested objects are not merged) and
\* every other key with the value accumulated before.
C15_ObjectsMergeShallow ==
    (pc = "merge" /\ attempt >= 1) =>
        LET before == FoldPayloads(currentResults, attempt - 1)
            chunk == currentResults[attempt]
        IN  \A key \in MergeKeys :
                HoldsKind(chunk, key, {"object"}) =>
                    /\ key \in DOMAIN mergedResults
                    /\ mergedResults[key].k = "object"
                    /\ LET new == chunk[key].v
                           now == mergedResults[key].v
                       IN  IF HoldsKind(before, key, {"object"})
                           THEN /\ DOMAIN now = (DOMAIN before[key].v) \cup (DOMAIN new)
                                /\ \A x \in DOMAIN now :
                                      now[x] = IF x \in DOMAIN new
                                               THEN new[x]
                                               ELSE before[key].v[x]
                           ELSE now = new

\* C15 witness: an object with keys p and q, then a sequence, then two
\* objects: the sequence is replaced by the first object after it, and the
\* last object's p replaces the accumulated p whole.
C15_Witness ==
    /\ pc = "merge"
    /\ attempt = 3
    /\ HoldsKind(currentResults[1], "f", {"array"})
    /\ HoldsKind(currentResults[2], "f", {"object"})
    /\ HoldsKind(currentResults[3], "f", {"object"})
    /\ currentResults[2]["f"] = Obj([p |-> Obj([s |-> Str("2")]), q |-> Str("3")])
    /\ currentResults[3]["f"] = Obj([p |-> Obj([r |-> Str("1")])])
    /\ mergedResults["f"] = Obj([p |-> Obj([r |-> Str("1")]), q |-> Str("3")])

----------------------------------------------------------------------------
(* fillMissingFields on its own: applied to any candidate, and applied     *)
(* again to the value it returned.                                         *)

\* The aiResponse argument: a backend's object, or a value that is not an
\* object (`{ ...aiResponse }` takes whatever it is given).
RepairCandidates(s) ==
    {Obj(c) : c \in Candidates(s)} \cup {Null, Undefined, Str("x")}

InitRepair ==
    /\ pc = "repair"
    /\ op = "fillMissingFields"
    /\ path = "none"
    /\ attempt = 0
    /\ schema \in Schemas
    /\ textPayload = <<>>
    /\ modelArg = NoModel
    /\ textPayloads = <<>>
    /\ externalReferences = NoRefs
    /\ result = NoResult
    /\ textChunks = <<>>
    /\ mergedResults = EmptyObject
    /\ firstSuccessfulModel = NoModel
    /\ pending = NoCall
    /\ aiCalls = <<>>
    /\ execLog = <<>>
    /\ outcome = NoOutcome
    /\ requestId = NoRequestId
    /\ currentResults = <<>>
    /\ candidate \in RepairCandidates(schema)
    /\ repairLog = <<>>
    /\ ActorsAtRest

\* One application of fillMissingFields(schema, aiResponse): the object the
\* loop leaves in fullResponse, and what `return schema.parse(fullResponse)` does.
Application(s, aiResponse) ==
    [aiResponse |-> aiResponse,
     fullResponse |-> FillDefaults(s, SpreadValue(aiResponse)),
     completion |-> fillMissingFields(s, aiResponse)]

RepairFrame ==
    UNCHANGED <<pc, op, path, attempt, schema, textPayload, modelArg, batchArgs, result,
                chunkVars, pending, aiCalls, execLog, outcome, requestId,
                currentResults, candidate, actorVars>>

\* fillMissingFields(schema, candidate)
FillMissingFields ==
    /\ pc = "repair"
    /\ repairLog = <<>>
    /\ repairLog' = <<Application(schema, candidate)>>
    /\ RepairFrame

\* fillMissingFields(schema, v) for the v the first application returned.
FillMissingFieldsAgain ==
    /\ pc = "repair"
    /\ Len(repairLog) = 1
    /\ ~repairLog[1].completion.thrown
    /\ repairLog' = Append(repairLog,
                           Application(schema, Obj(repairLog[1].completion.value)))
    /\ RepairFrame

NextRepair ==
    \/ FillMissingFields
    \/ FillMissingFieldsAgain

SpecRepair == InitRepair /\ [][NextRepair]_vars

\* Whether the object lacks the field or holds undefined there.
Missing(object, field) == ~(field \in DOMAIN object) \/ object[field] = Undefined

\* The default by declared kind: sequence, object, string, boolean, number,
\* any other kind.
DefaultByKind(typeName) ==
    IF typeName = "ZodArray" THEN Arr(<<>>)
    ELSE IF typeName = "ZodObject" THEN Obj(<<>>)
    ELSE IF typeName = "ZodString" THEN Str("")
    ELSE IF typeName = "ZodBoolean" THEN Bool(FALSE)
    ELSE IF typeName = "ZodNumber" THEN Num(0)
    ELSE Null

\* C16: the object fillMissingFields hands to validation has the keys of the
\* candidate and the declared fields; a declared field that the candidate
\* lacks or holds as undefined has the default of its kind; every other key,
\* a declared field held as null included, has the candidate's value.
C16_DefaultsForMissingOnly ==
    (pc = "repair") =>
        \A n \in 1..Len(repairLog) :
            LET given == SpreadValue(repairLog[n].aiResponse)
                full == repairLog[n].fullResponse
            IN  /\ DOMAIN full = (DOMAIN given) \cup (DOMAIN schema.shape)
                /\ \A key \in DOMAIN full :
                      full[key] = IF key \in DOMAIN schema.shape /\ Missing(given, key)
                                  THEN DefaultByKind(schema.shape[key].typeName)
                                  ELSE given[key]

\* C16 witness: a candidate with a null title and no tags; validation is
\* handed the null title and an empty sequence of tags.
C16_Witness ==
    /\ pc = "repair"
    /\ Len(repairLog) = 1
    /\ repairLog[1].aiResponse = Obj([title |-> Null])
    /\ DOMAIN schema.shape = {"title", "tags"}
    /\ repairLog[1].fullResponse = [title |-> Null, tags |-> Arr(<<>>)]

\* C17: fillMissingFields either returns a value the schema validates, in
\* which every declared field the candidate held (other than as undefined)
\* has the candidate's value, or raises a validation error; when the
\* candidate holds a declared field with a value its type does not accept,
\* it raises.
C17_RepairValidatesWithoutCoercion ==
    (pc = "repair") =>
        \A n \in 1..Len(repairLog) :
            LET given == SpreadValue(repairLog[n].aiResponse)
                done == repairLog[n].completion
                wrong == {key \in DOMAIN schema.shape :
                            ~Missing(given, key) /\ ~Accepts(schema.shape[key], given[key])}
            IN  /\ IF done.thrown
                   THEN "errors" \in DOMAIN done.error
                   ELSE /\ SchemaValid(schema, done.value)
                        /\ \A key \in DOMAIN schema.shape :
                              ~Missing(given, key) =>
                                  /\ key \in DOMAIN done.value
                                  /\ done.value[key] = given[key]
                /\ wrong # {} => done.thrown

\* C17 witness: a candidate whose title is a number is refused, and the
\* refusal names the title.
C17_Witness ==
    /\ pc = "repair"
    /\ Len(repairLog) = 1
    /\ repairLog[1].aiResponse = Obj([title |-> Num(7)])
    /\ repairLog[1].completion.thrown
    /\ Contains(repairLog[1].completion.error.errors, <<"title">>)

\* C18: fillMissingFields applied to a value it returned returns that value.
C18_RepairIdempotent ==
    (pc = "repair" /\ Len(repairLog) = 2) =>
        /\ ~repairLog[2].completion.thrown
        /\ repairLog[2].completion.value = repairLog[1].completion.value

\* C18 witness: a candidate without tags is repaired with an empty sequence
\* of tags, and the repaired value is repaired again.
C18_Witness ==
    /\ pc = "repair"
    /\ Len(repairLog) = 2
    /\ repairLog[1].aiResponse = Obj([title |-> Str("x")])
    /\ repairLog[1].completion.value = [title |-> Str("x"), tags |-> Arr(<<>>)]
    /\ ~repairLog[2].completion.thrown

----------------------------------------------------------------------------
(* pollBatchAnalysisStatus                                                 *)

\* A string value made of the tokens of a template literal.
StrOf(tokens) == [k |-> "string", v |-> tokens]

\* Whether `if (value)` takes the value for true.
Truthy(value) ==
    CASE value.k \in {"null", "undefined"} -> FALSE
      [] value.k = "boolean" -> value = Bool(TRUE)
      [] value.k = "string" -> value.v \notin {<<>>, <<"">>}
      [] value.k = "number" -> value # Num(0)
      [] OTHER -> TRUE

\* item.result?.response of an object item.
ItemResponse(item) ==
    LET itemResult == Get(item, "result") IN
    IF itemResult.k = "object" THEN Get(itemResult.v, "response") ELSE Undefined

\* FailedItem in which the item's own `success` stays in place.
FailedItemKeepsSuccess(item, errorMessage) ==
    Obj(Spread([success |-> Bool(FALSE)],
               Spread(item, [error |-> errorMessage,
                             result |-> Obj([response |-> Obj([error |-> errorMessage])])])))

\* The failed shape: { ...item, success: false, error, result: { response: { error } } }
FailedItem(item, errorMessage) ==
    Obj(Spread(item, [success |-> Bool(FALSE),
                      error |-> errorMessage,
                      result |-> Obj([response |-> Obj([error |-> errorMessage])])]))

\* The async callback of response.responses.map applied to one item: the
\* value its promise resolves to, or the error it rejects with (reading
\* `item.success` of null or undefined is a TypeError).
ProcessItem(s, item) ==
    IF item.k \in {"null", "undefined"}
    THEN Thrown([message |-> <<"Cannot read properties of ", item.k, " (reading 'success')">>])
    ELSE LET response == ItemResponse(item.v) IN
         IF Truthy(Get(item.v, "success")) /\ Truthy(response)
         THEN LET filled == fillMissingFields(s, response) IN
              IF filled.thrown
              THEN Value(FailedItem(item.v,
                        StrOf(<<"Schema validation failed: ">> \o ErrorMessage(filled.error))))
              ELSE Value(Obj(Spread(item.v,
                        [result |-> Obj([response |-> Obj(filled.value)])])))
         ELSE Value(FailedItem(item.v,
                   IF Truthy(Get(item.v, "error"))
                   THEN item.v["error"]
                   ELSE Str("AI processing failed or result structure invalid.")))

\* PollCompleted that reports the batch as failed when an item came out failed.
PollCompletedFailsWhole(s, response) ==
    LET items == response["responses"].v
        processed == [i \in 1..Len(items) |-> ProcessItem(s, items[i])]
        rejected == {i \in 1..Len(items) : processed[i].thrown}
        anyFailed == \E i \in 1..Len(items) :
                        ~processed[i].thrown /\ processed[i].value.v["success"] = Bool(FALSE)
    IN  IF rejected # {}
        THEN Thrown(processed[CHOOSE i \in rejected : \A j \in rejected : i <= j].error)
        ELSE Value(Spread(response,
                 [key \in {"responses", "status"} |->
                     IF key = "responses"
                     THEN Arr([i \in 1..Len(items) |-> processed[i].value])
                     ELSE IF anyFailed THEN "failed" ELSE "completed"]))

\* PollCompleted that returns the processed items last first.
PollCompletedReversed(s, response) ==
    LET items == response["responses"].v
        n == Len(items)
        processed == [i \in 1..n |-> ProcessItem(s, items[i])]
        rejected == {i \in 1..n : processed[i].thrown}
    IN  IF rejected # {}
        THEN Thrown(processed[CHOOSE i \in rejected : \A j \in rejected : i <= j].error)
        ELSE Value(Spread(response,
                 [key \in {"responses", "status"} |->
                     IF key = "responses"
                     THEN Arr([i \in 1..n |-> processed[n + 1 - i].value])
                     ELSE "completed"]))

\* Lines 387-425 for a completed response whose `responses` is a list:
\* Promise.all rejects with the first rejection of a callback, otherwise
\* { ...response, responses: processedResponses, status: "completed" }.
PollCompleted(s, response) ==
    LET items == response["responses"].v
        processed == [i \in 1..Len(items) |-> ProcessItem(s, items[i])]
        rejected == {i \in 1..Len(items) : processed[i].thrown}
    IN  IF rejected # {}
        THEN Thrown(processed[CHOOSE i \in rejected : \A j \in rejected : i <= j].error)
        ELSE Value(Spread(response,
                 [key \in {"responses", "status"} |->
                     IF key = "responses"
                     THEN Arr([i \in 1..Len(items) |-> processed[i].value])
                     ELSE "completed"]))

\* HasResponseList that takes any object for a list.
HasResponseListLoose(response) ==
    "responses" \in DOMAIN response /\ response["responses"].k \in {"array", "object"}

\* Array.isArray(response.responses)
HasResponseList(response) ==
    "responses" \in DOMAIN response /\ response["responses"].k = "array"

\* PollAfter that processes the items whatever the status is.
PollAfterProcessesAlways(s, id, response) ==
    IF response = Null
    THEN Thrown([message |-> <<"Cannot read properties of null (reading 'status')">>])
    ELSE IF response["status"] # "completed" /\ ~HasResponseList(response)
    THEN Value(response)
    ELSE IF ~HasResponseList(response)
    THEN Thrown([message |-> <<"Completed batch analysis response for ", id,
                               " has invalid structure.">>])
    ELSE PollCompleted(s, response)

\* pollBatchAnalysisStatus after `await this.env.AI.run(...)` resolved.
PollAfter(s, id, response) ==
    IF response = Null
    THEN Thrown([message |-> <<"Cannot read properties of null (reading 'status')">>])
    ELSE IF response["status"] # "completed"
    THEN Value(response)
    ELSE IF ~HasResponseList(response)
    THEN Thrown([message |-> <<"Completed batch analysis response for ", id,
                               " has invalid structure.">>])
    ELSE PollCompleted(s, response)

RequestIds == {NoRequestId, "req-1"}

\* Result payloads of an item: the backend's objects with at most one key.
ItemPayloads(s) == {Obj(c) : c \in {d \in Candidates(s) : Cardinality(DOMAIN d) <= 1}}

\* Items of a completed batch: null, undefined, an object without success
\* or result, success without result or with a null result, an upstream
\* failure with and without an error, success with a string payload, and
\* success with an object payload and the submitter's external reference.
Items(s) ==
    {Null, Undefined,
     Obj(EmptyObject),
     Obj([success |-> Bool(TRUE)]),
     Obj([success |-> Bool(TRUE), result |-> Null]),
     Obj([success |-> Bool(FALSE), error |-> Str("upstream failure")]),
     Obj([success |-> Bool(FALSE), result |-> Obj([response |-> Obj(EmptyObject)])]),
     Obj([success |-> Bool(TRUE), result |-> Obj([response |-> Str("x")])])}
    \cup {Obj([success |-> Bool(TRUE),
               result |-> Obj([response |-> payload, usage |-> Str("u")]),
               external_reference |-> Str("ref")]) : payload \in ItemPayloads(s)}

\* What `await this.env.AI.run(modelName, {request_id})` may do: throw, or
\* resolve to null, to a batch still queued or running (with or without
\* partial items), or to a completed batch without `responses`, with one
\* that is not a list, or with a list.
PollReplies(s) ==
    {[kind |-> "throw", error |-> [message |-> <<"backend unavailable">>]],
     [kind |-> "resolve", envelope |-> Null],
     [kind |-> "resolve", envelope |-> [status |-> "queued", request_id |-> "req-1"]],
     [kind |-> "resolve", envelope |-> [status |-> "running", request_id |-> "req-1"]],
     [kind |-> "resolve", envelope |->
         [status |-> "running", request_id |-> "req-1",
          responses |-> Arr(<<Obj([success |-> Bool(TRUE),
                                   result |-> Obj([response |-> Obj(EmptyObject)])])>>)]],
     [kind |-> "resolve", envelope |-> [status |-> "completed", request_id |-> "req-1"]],
     [kind |-> "resolve", envelope |-> [status |-> "completed", request_id |-> "req-1",
                                        responses |-> Null]],
     [kind |-> "resolve", envelope |-> [status |-> "completed", request_id |-> "req-1",
                                        responses |-> Obj(EmptyObject)]]}
    \cup {[kind |-> "resolve", envelope |-> [status |-> "completed", request_id |-> "req-1",
                                             responses |-> Arr(items)]] :
             items \in UNION {[1..n -> Items(s)] : n \in 0..MaxBatch}}

\* pollBatchAnalysisStatus(modelName, requestId, schema) up to its env.AI.run call.
PollBatchAnalysisStatus(modelName, id, s) ==
    /\ Enter("pollBatchAnalysisStatus", s, <<>>, modelName)
    /\ requestId' = id
    /\ path' = "poll"
    /\ attempt' = 0
    /\ IF id = NoRequestId
       THEN Throws([message |-> <<"Request ID is required to poll batch status.">>])
       ELSE /\ pc' = "await"
            /\ outcome' = NoOutcome
    /\ UNCHANGED <<batchArgs, chunkVars>>

\* env.AI.run(modelName, { request_id: requestId })
PollRequest == [kind |-> "poll", model |-> modelArg, request_id |-> requestId]

\* The status request is issued.
PollSubmit ==
    /\ pc = "await"
    /\ path = "poll"
    /\ pending = NoCall
    /\ pending' = PollRequest
    /\ aiCalls' = Append(aiCalls, pending')
    /\ UNCHANGED <<pc, op, path, attempt, schema, textPayload, modelArg, batchArgs, result,
                   chunkVars, execLog, outcome, requestId, pureVars, actorVars>>

\* The status request completes: a rejection propagates, a resolution is
\* inspected and, when completed, processed item by item.
PollReply ==
    /\ pc = "await"
    /\ pending.kind = "poll"
    /\ \E reply \in PollReplies(schema) :
          IF reply.kind = "throw"
          THEN /\ Throws(reply.error)
               /\ result' = NoResult
          ELSE LET done == PollAfter(schema, requestId, reply.envelope) IN
               /\ result' = reply.envelope
               /\ IF done.thrown THEN Throws(done.error) ELSE Returns(done.value)
    /\ pending' = NoCall
    /\ UNCHANGED <<op, path, attempt, schema, textPayload, modelArg, batchArgs,
                   chunkVars, aiCalls, execLog, requestId, pureVars, actorVars>>

NextPoll ==
    \/ \E s \in Schemas, id \in RequestIds, modelName \in ModelNames :
          PollBatchAnalysisStatus(modelName, id, s)
    \/ PollSubmit
    \/ PollReply

SpecPoll == Init /\ [][NextPoll]_vars

\* The poll found the batch completed with a list of items.
CompletedPoll ==
    /\ path = "poll"
    /\ pc = "done"
    /\ result # NoResult
    /\ result # Null
    /\ result["status"] = "completed"
    /\ HasResponseList(result)

\* The items the backend reported and the items the poll returned.
InputItems == result["responses"].v
OutputItems == outcome.value["responses"].v

\* The item signals success and carries a payload.
HasPayload(item) ==
    /\ item.k = "object"
    /\ Truthy(Get(item.v, "success"))
    /\ Truthy(ItemResponse(item.v))

\* C19: when a poll of a completed batch returns, its status is "completed"
\* and it has one output item per input item; output item i is a function of
\* input item i and the schema only; an item with a payload that repairs
\* keeps its success and fields and carries the repaired payload, an item
\* whose payload fails repair has success=false, whatever the other items are.
C19_BatchIsolation ==
    (CompletedPoll /\ Returned) =>
        /\ outcome.value["status"] = "completed"
        /\ outcome.value["responses"].k = "array"
        /\ Len(OutputItems) = Len(InputItems)
        /\ \A i \in 1..Len(InputItems) :
              LET item == InputItems[i]
                  out == OutputItems[i]
                  alone == ProcessItem(schema, item)
              IN  /\ ~alone.thrown
                  /\ out = alone.value
                  /\ HasPayload(item) =>
                        LET repaired == fillMissingFields(schema, ItemResponse(item.v)) IN
                        IF repaired.thrown
                        THEN out.v["success"] = Bool(FALSE)
                        ELSE /\ out.v["success"] = item.v["success"]
                             /\ out.v["result"] = Obj([response |-> Obj(repaired.value)])
                             /\ \A key \in (DOMAIN item.v) \ {"result"} :
                                   out.v[key] = item.v[key]

\* C19 witness: a two-item batch whose first item fails repair and whose
\* second repairs; the poll returns "completed", the first item failed, the
\* second succeeded.
C19_Witness ==
    /\ CompletedPoll
    /\ Returned
    /\ Len(InputItems) = 2
    /\ HasPayload(InputItems[1])
    /\ HasPayload(InputItems[2])
    /\ fillMissingFields(schema, ItemResponse(InputItems[1].v)).thrown
    /\ ~fillMissingFields(schema, ItemResponse(InputItems[2].v)).thrown
    /\ OutputItems[1].v["success"] = Bool(FALSE)
    /\ OutputItems[2].v["success"] = Bool(TRUE)
    /\ outcome.value["status"] = "completed"

\* C20: a poll of a completed batch whose `responses` is a list returns
\* (does not throw) whatever its items are, an item that is null or
\* undefined or lacks success or result included, and each such item comes
\* out with success=false.
C20_PollNeverThrowsOnItems ==
    CompletedPoll =>
        /\ Returned
        /\ \A i \in 1..Len(InputItems) :
              ~HasPayload(InputItems[i]) => OutputItems[i].v["success"] = Bool(FALSE)

----------------------------------------------------------------------------
(* requestBatchAnalysis: preconditions and acknowledgment.                 *)

InBatchSubmission == op = "requestBatchAnalysis"

ThrewBeforeAnyCall ==
    /\ pc = "done"
    /\ outcome.kind = "thrown"
    /\ aiCalls = <<>>
    /\ pending = NoCall

\* C21: requestBatchAnalysis with no text, with an empty text, or with
\* references given whose number differs from the number of texts, throws
\* without any call to env.AI.run.
C21_BatchPreconditionsBeforeCall ==
    InBatchSubmission =>
        ((\/ Len(textPayloads) = 0
          \/ \E i \in 1..Len(textPayloads) : Len(textPayloads[i]) = 0
          \/ externalReferences.given
                /\ Len(externalReferences.refs) # Len(textPayloads))
         => ThrewBeforeAnyCall)

\* C21 witness: two texts and one reference; the call threw with the
\* message about the lengths and nothing was submitted.
C21_Witness ==
    /\ InBatchSubmission
    /\ Len(textPayloads) = 2
    /\ externalReferences.given
    /\ Len(externalReferences.refs) = 1
    /\ ThrewBeforeAnyCall
    /\ outcome.error.message =
          <<"Length of externalReferences must match the length of textPayloads.">>

\* A text that is empty or made of whitespace only.
Blank(text) == \A i \in 1..Len(text) : text[i] = " "

\* C22: requestBatchAnalysis with a blank text (empty or whitespace only)
\* throws and submits nothing.
C22_BlankTextRejected ==
    InBatchSubmission =>
        ((\E i \in 1..Len(textPayloads) : Blank(textPayloads[i])) => ThrewBeforeAnyCall)

\* The acknowledgment is queued and carries a request id that is not empty.
QueuedWithId(envelope) ==
    /\ envelope # Null
    /\ "status" \in DOMAIN envelope
    /\ envelope["status"] = "queued"
    /\ "request_id" \in DOMAIN envelope
    /\ envelope["request_id"] # ""

\* C23: once the backend has acknowledged a submission, requestBatchAnalysis
\* returns the acknowledgment if it is queued with a request id that is not
\* empty, and throws for any other acknowledgment; so whatever it returns is
\* queued and has a request id.
C23_ReturnsOnlyQueued ==
    (InBatchSubmission /\ pc = "done") =>
        /\ Returned => QueuedWithId(outcome.value)
        /\ result # NoResult =>
              IF QueuedWithId(result)
              THEN Returned /\ outcome.value = result
              ELSE /\ outcome.kind = "thrown"
                   /\ outcome.error.message[1] =
                         "Failed to queue batch analysis request. Received status: "

\* C23 witness: the backend acknowledged with "queued" and no request id,
\* and the submission threw.
C23_Witness ==
    /\ InBatchSubmission
    /\ pc = "done"
    /\ result = [status |-> "queued"]
    /\ outcome.kind = "thrown"
    /\ outcome.error.message =
          <<"Failed to queue batch analysis request. Received status: ", "queued">>

----------------------------------------------------------------------------
(* pollBatchAnalysisStatus: passthrough, order, item shapes, structure.    *)

\* The poll is over and the backend had answered with a response object.
PollAnswered ==
    /\ path = "poll"
    /\ pc = "done"
    /\ result # NoResult
    /\ result # Null

\* C24: when the backend's status is anything but "completed", the poll
\* returns the backend's response as it is: same status, same fields, and
\* any items in it untouched.
C24_PollPassthrough ==
    (PollAnswered /\ result["status"] # "completed") =>
        /\ Returned
        /\ outcome.value = result

\* C24 witness: a running batch that already lists an item with a payload
\* is returned with status "running" and that item as the backend gave it.
C24_Witness ==
    /\ PollAnswered
    /\ result["status"] = "running"
    /\ "responses" \in DOMAIN result
    /\ Returned
    /\ outcome.value["status"] = "running"
    /\ outcome.value["responses"] = result["responses"]

\* The keys the processing of an item may write.
ProcessedKeys == {"success", "error", "result"}

\* C25: a poll of a completed batch of n items that returns has n output
\* items, and output item i is input item i processed: it is what the
\* processing of input item i alone gives, and it has input item i's value
\* under every key that processing does not write.
C25_PollPreservesOrder ==
    (CompletedPoll /\ Returned) =>
        /\ Len(OutputItems) = Len(InputItems)
        /\ \A i \in 1..Len(InputItems) :
              /\ InputItems[i].k = "object"
              /\ OutputItems[i].k = "object"
              /\ OutputItems[i] = ProcessItem(schema, InputItems[i]).value
              /\ \A key \in (DOMAIN InputItems[i].v) \ ProcessedKeys :
                    /\ key \in DOMAIN OutputItems[i].v
                    /\ OutputItems[i].v[key] = InputItems[i].v[key]

\* C25 witness: a two-item batch, an upstream failure first and an item
\* with a reference second; the outputs come in that order.
C25_Witness ==
    /\ CompletedPoll
    /\ Returned
    /\ Len(InputItems) = 2
    /\ InputItems[1] = Obj([success |-> Bool(FALSE), error |-> Str("upstream failure")])
    /\ "external_reference" \in DOMAIN InputItems[2].v
    /\ OutputItems[1].v["error"] = Str("upstream failure")
    /\ "external_reference" \in DOMAIN OutputItems[2].v

\* The successful shape: success=true and result.response a value the schema validates.
SuccessShape(s, item) ==
    /\ item.v["success"] = Bool(TRUE)
    /\ "result" \in DOMAIN item.v
    /\ item.v["result"].k = "object"
    /\ "response" \in DOMAIN item.v["result"].v
    /\ item.v["result"].v["response"].k = "object"
    /\ SchemaValid(s, item.v["result"].v["response"].v)

\* The failed shape: success=false, an error that is not empty, and
\* result.response.error equal to it.
FailedShape(item) ==
    /\ item.v["success"] = Bool(FALSE)
    /\ "error" \in DOMAIN item.v
    /\ Truthy(item.v["error"])
    /\ "result" \in DOMAIN item.v
    /\ item.v["result"] = Obj([response |-> Obj([error |-> item.v["error"]])])

\* C26: every item of a completed poll's output is an object in the
\* successful shape or in the failed shape; an input item that does not
\* signal success, or signals it without a payload, comes out in the failed
\* shape.
C26_ItemShapes ==
    (CompletedPoll /\ Returned) =>
        \A i \in 1..Len(OutputItems) :
            LET out == OutputItems[i] IN
            /\ out.k = "object"
            /\ "success" \in DOMAIN out.v
            /\ SuccessShape(schema, out) \/ FailedShape(out)
            /\ ~HasPayload(InputItems[i]) => FailedShape(out)

\* C26 witness: one item whose payload fails repair comes out in the failed
\* shape with the validation error, next to one in the successful shape.
C26_Witness ==
    /\ CompletedPoll
    /\ Returned
    /\ Len(OutputItems) = 2
    /\ HasPayload(InputItems[1])
    /\ FailedShape(OutputItems[1])
    /\ OutputItems[1].v["error"].v[1] = "Schema validation failed: "
    /\ SuccessShape(schema, OutputItems[2])

\* The response has no `responses`, or one that is not a sequence.
NotAList(response) ==
    ~("responses" \in DOMAIN response) \/ response["responses"].k # "array"

\* C30: when the backend's status is "completed" and `responses` is not a
\* list, the poll throws the structural error naming the request, and
\* returns nothing.
C30_NonListThrows ==
    (PollAnswered /\ result["status"] = "completed" /\ NotAList(result)) =>
        /\ outcome.kind = "thrown"
        /\ outcome.error.message =
              <<"Completed batch analysis response for ", requestId, " has invalid structure.">>

\* C30 witness: a completed response whose `responses` is an object made
\* the poll throw.
C30_Witness ==
    /\ PollAnswered
    /\ result["status"] = "completed"
    /\ "responses" \in DOMAIN result
    /\ result["responses"].k = "object"
    /\ outcome.kind = "thrown"

----------------------------------------------------------------------------
(* Result shape, sequencing and empty input.                               *)

ResultFields == {"success", "modelUsed", "structuredResult", "error", "isChunked"}

\* C27: every record analyzeText returns has the five fields success,
\* modelUsed, structuredResult, error and isChunked; isChunked is a boolean;
\* error is null when success is true.
C27_UniformResultShape ==
    (op = "analyzeText" /\ Returned) =>
        /\ DOMAIN outcome.value = ResultFields
        /\ outcome.value.isChunked \in BOOLEAN
        /\ outcome.value.success => outcome.value.error = Null

\* The executeModel invocations that got as far as the backend call.
CompletedCalls == IF UsableWireSchema(WireSchema(schema)) THEN Len(execLog) ELSE 0

\* C28: during analyzeText or chunkAndMerge the backend calls issued exceed
\* the calls whose result has been inspected by one while a call is
\* outstanding and by none otherwise; the outstanding call is the last one
\* issued, and the k-th call carried the text of the k-th inspected result.
C28_SequentialCalls ==
    (op \in {"analyzeText", "chunkAndMerge"}) =>
        /\ Len(aiCalls) = CompletedCalls + (IF pending = NoCall THEN 0 ELSE 1)
        /\ pending # NoCall <=> pc = "await"
        /\ pending # NoCall => pending = aiCalls[Len(aiCalls)]
        /\ \A k \in 1..CompletedCalls :
              /\ aiCalls[k].model = execLog[k].model
              /\ aiCalls[k].text = execLog[k].text

\* C28 witness: the third chunk's call is outstanding after two chunks were
\* extracted and merged.
C28_Witness ==
    /\ op = "chunkAndMerge"
    /\ pc = "await"
    /\ Len(aiCalls) = 3
    /\ Len(execLog) = 2
    /\ attempt = 2
    /\ pending.text = textChunks[3]

\* C29: analyzeText and analyzeTextWithModel with an empty text throw the
\* empty-text error without invoking executeModel or calling the backend.
C29_EmptyTextThrows ==
    (op \in {"analyzeText", "analyzeTextWithModel"} /\ textPayload = <<>>) =>
        /\ ThrewBeforeAnyCall
        /\ execLog = <<>>
        /\ outcome.error = EmptyTextError(op)

\* C29 witness: analyzeTextWithModel with an empty text and a schema that
\* would not compile threw the empty-text error.
C29_Witness ==
    /\ op = "analyzeTextWithModel"
    /\ textPayload = <<>>
    /\ schema.typeName # "ZodObject"
    /\ ThrewBeforeAnyCall
    /\ outcome.error.message =
          <<"Input textPayload cannot be empty for ", "analyzeTextWithModel", ".">>

----------------------------------------------------------------------------
(* Final validation of chunkAndMerge; the number of backend calls.         *)

\* Every chunk of the text was extracted with success and a payload.
AllChunksSucceeded ==
    /\ Len(ChunkExecs) = ExpectedChunks
    /\ \A i \in 1..Len(ChunkExecs) :
          /\ ChunkExecs[i].completion.value.success
          /\ ChunkExecs[i].completion.value.structuredResult # Null

\* C31: when every chunk succeeded and the merged object fails the final
\* repair, chunkAndMerge returns (does not throw) a record with
\* success=false, structuredResult=null, isChunked=true and the error
\* "Final validation after merging failed: " followed by the validation error.
C31_FinalValidationFailureReturned ==
    (path = "chunk" /\ pc = "done" /\ AllChunksSucceeded) =>
        LET repaired == fillMissingFields(schema,
                            Obj(FoldChunks(ChunkExecs, Len(ChunkExecs))))
        IN  repaired.thrown =>
                /\ Returned
                /\ ~outcome.value.success
                /\ outcome.value.structuredResult = Null
                /\ outcome.value.isChunked = TRUE
                /\ outcome.value.error =
                      <<"Final validation after merging failed: ">>
                      \o ErrorMessage(repaired.error)

\* C31 witness: two chunks each gave one tag, and the merged two tags
\* exceed the schema's maximum of one.
C31_Witness ==
    /\ op = "chunkAndMerge"
    /\ pc = "done"
    /\ ExpectedChunks = 2
    /\ AllChunksSucceeded
    /\ DOMAIN schema.shape = {"tags"}
    /\ Returned
    /\ ~outcome.value.success
    /\ outcome.value.error = <<"Final validation after merging failed: ", "[", "tags", "]">>

\* The backend calls made for the completed or outstanding extractions.
RunCalls == Len(SelectSeq(aiCalls, LAMBDA c : c.kind = "run"))

\* analyzeText alone.
NextAnalyze ==
    \/ \E s \in Schemas, text \in Texts : AnalyzeText(s, text)
    \/ ExecuteModelCall
    \/ ModelReply

\* Every backend call returns or throws (ModelReply), and the method runs
\* on when it is not waiting for one (ExecuteModelCall).
SpecAnalyze ==
    Init /\ [][NextAnalyze]_vars /\ WF_vars(ExecuteModelCall) /\ WF_vars(ModelReply)

\* At most 4 backend calls for a text no longer than the threshold, at most
\* 2 + ceil(L/C) for a longer one; chunkAndMerge is reached with 2 chunks or more.
BoundedCalls ==
    (op = "analyzeText") =>
        /\ Len(textPayload) <= maxSmallContextChars => RunCalls <= 4
        /\ Len(textPayload) > maxSmallContextChars => RunCalls <= 2 + ExpectedChunks
        /\ path = "chunk" => Len(textChunks) >= 2 /\ Len(textChunks) = ExpectedChunks

\* C32: when every backend call returns or throws, analyzeText always
\* comes to an end, and at no time has it made more than 4 backend calls
\* for a text no longer than the threshold or more than 2 + ceil(L/C) for a
\* longer one, the chunked strategy being reached with at least 2 chunks.
C32_BoundedTermination ==
    /\ []BoundedCalls
    /\ (op = "analyzeText") ~> (pc = "done")

\* C32 witness: a three-chunk text whose two full-text attempts failed and
\* whose three chunks were each extracted: five calls, and analyzeText is over.
C32_Witness ==
    /\ op = "analyzeText"
    /\ pc = "done"
    /\ ExpectedChunks = 3
    /\ RunCalls = 5

----------------------------------------------------------------------------
(* executeCommandSequence(sessionStub, commands) (agent-helper.js): the    *)
(* commands are POSTed to the session one after the other; the function   *)
(* is suspended at `await sessionStub.fetch(...)`.                         *)

besideSequence == <<toolVars, sessionVars, socketVars, workerVars, queueVars>>

\* Longest commands list the model passes.
MaxCommands == 3

\* An element of commands: { command, params }.
CommandItems ==
    {Obj([key \in {"command", "params"} |->
             IF key = "command" THEN Str("ADD_WALL") ELSE Obj(EmptyObject)]),
     Obj([key \in {"command"} |-> Str("SWITCH_VIEW")])}

CommandLists == UNION {[1..n -> CommandItems] : n \in 0..MaxCommands}

\* `const { command, params } of commands`: the two properties of the element.
CommandOf(item) == Get(item.v, "command")
ParamsOf(item) == Get(item.v, "params")

\* JSON.stringify({ command, params }): a key holding undefined is left out.
RequestBody(item) ==
    LET whole == [key \in {"command", "params"} |->
                     IF key = "command" THEN CommandOf(item) ELSE ParamsOf(item)]
    IN [key \in {k \in DOMAIN whole : whole[k] # Undefined} |-> whole[key]]

\* What the awaited fetch and `await response.json()` can give: the fetch
\* rejects, the body is not JSON, or the body is a JSON value.
SessionReplies ==
    {[kind |-> "rejected", error |-> [message |-> <<"Network connection lost.">>]],
     [kind |-> "notJson", error |-> [message |-> <<"Unexpected token < in JSON">>]]}
    \cup {[kind |-> "json", value |-> v] :
            v \in {Obj([key \in {"success"} |-> Bool(TRUE)]),
                   Obj([key \in {"success", "error"} |->
                           IF key = "success" THEN Bool(FALSE) ELSE Str("Unknown command")]),
                   Obj(EmptyObject),
                   Null}}

\* `result.success`: reading a property of null throws.
ReadSuccess(value) ==
    IF value.k \in {"null", "undefined"}
    THEN Thrown([message |-> <<"Cannot read properties of ", value.k, " (reading 'success')">>])
    ELSE IF value.k = "object" THEN Value(Get(value.v, "success")) ELSE Value(Undefined)

\* The body of the try: the entry pushed, or what was thrown before the push.
SequenceTry(item, reply) ==
    IF reply.kind # "json"
    THEN Thrown(reply.error)
    ELSE LET success == ReadSuccess(reply.value)
         IN IF success.thrown
            THEN Thrown(success.error)
            ELSE Value([command |-> CommandOf(item), params |-> ParamsOf(item),
                        success |-> success.value, result |-> reply.value])

\* The entry the catch block pushes.
SequenceCatch(item, error) ==
    [command |-> CommandOf(item), params |-> ParamsOf(item),
     success |-> Bool(FALSE), error |-> StrOf(error.message)]

SequenceBreaksNever(entry) == FALSE

\* `if (!result.success) break;`
SequenceBreaks(entry) == ~Truthy(entry.success)

\* executeCommandSequence(sessionStub, list), up to its first await.
ExecuteCommandSequence ==
    /\ sequencePc = "idle"
    /\ \E list \in CommandLists :
        /\ commands' = list
        /\ commandIndex' = 0
        /\ results' = <<>>
        /\ IF list = <<>>
           THEN sequencePc' = "returned" /\ sequenceSent' = <<>>
           ELSE sequencePc' = "await" /\ sequenceSent' = <<RequestBody(list[1])>>
    /\ UNCHANGED besideSequence

\* The session answers (or the fetch fails): the rest of this pass of the
\* loop and, unless it breaks, the next pass up to its fetch.
SessionReply ==
    /\ sequencePc = "await"
    /\ \E reply \in SessionReplies :
        LET item == commands[commandIndex + 1]
            tried == SequenceTry(item, reply)
            entry == IF tried.thrown THEN SequenceCatch(item, tried.error) ELSE tried.value
            broke == tried.thrown \/ SequenceBreaks(entry)
        IN /\ results' = Append(results, entry)
           /\ IF ~broke /\ commandIndex + 1 < Len(commands)
              THEN /\ commandIndex' = commandIndex + 1
                   /\ sequenceSent' = Append(sequenceSent, RequestBody(commands[commandIndex + 2]))
                   /\ sequencePc' = "await"
              ELSE /\ commandIndex' = IF broke THEN commandIndex ELSE commandIndex + 1
                   /\ sequencePc' = "returned"
                   /\ UNCHANGED sequenceSent
    /\ UNCHANGED <<besideSequence, commands>>

NextSequence ==
    \/ ExecuteCommandSequence
    \/ SessionReply

SpecSequence == Init /\ [][NextSequence]_vars

\* The entry records a command that did not succeed.
FailedEntry(entry) == entry.success # Bool(TRUE)

----------------------------------------------------------------------------
(* PlannerSessionDO (durable-object.js): executeCommand, loadPlan and      *)
(* alarm, each suspended where it awaits the container or the plan         *)
(* storage; while one of them is suspended, the others may run.  The       *)
(* awaits on state.storage do not let another event in, so a storage.put   *)
(* belongs to the step it follows.  createdAt, userId and lastSaved of the *)
(* metadata are left out.                                                  *)

\* Most container.fetch calls in one behaviour.
MaxContainerRequests == 3

besideSession == <<toolVars, sequenceVars, socketVars, workerVars, queueVars>>

NoPlanId == "null"
PlanIds == {"p1", "p2"}

Metadata(planId, modifications) == [planId |-> planId, modifications |-> modifications]

\* { timestamp: Date.now(), command, params }
Modification(command, params) ==
    [timestamp |-> "Date.now()", command |-> command, params |-> params]

\* initialize(): the metadata in memory afterwards.
Initialize(memory, stored) ==
    IF memory # NoMetadata
    THEN memory
    ELSE IF stored # NoMetadata THEN stored ELSE Metadata(NoPlanId, <<>>)

\* The command and params of a /command request.
SessionCommands ==
    {[command |-> Str("ADD_WALL"), params |-> Obj(EmptyObject)],
     [command |-> Str("SWITCH_VIEW"), params |-> Undefined]}

LoadProject == [command |-> Str("LOAD_PROJECT"), params |-> Obj([key \in {"sceneJSON"} |-> Obj(EmptyObject)])]

\* What `await container.fetch(...)` and `await response.json()` can give.
ContainerReplies ==
    {[kind |-> "rejected", error |-> [message |-> <<"Container is not running.">>]]}
    \cup {[kind |-> "json", value |-> v] :
            v \in {Obj([key \in {"success"} |-> Bool(TRUE)]),
                   Obj([key \in {"success"} |-> Bool(FALSE)]),
                   Null}}

ContainerRequest(url, command) == [url |-> url, command |-> command]

ExecuteCommandAfterAlways(memory, stored, command, params, reply) ==
    LET logged == [memory EXCEPT !.modifications = Append(@, Modification(command, params))]
    IN [memory |-> logged, stored |-> logged,
        completion |-> IF reply.kind = "json" THEN Value(reply.value) ELSE Thrown(reply.error)]

\* executeCommand from `const result = await response.json()` on: the
\* metadata in memory, the metadata in storage, and how the call completes.
ExecuteCommandAfter(memory, stored, command, params, reply) ==
    IF reply.kind # "json"
    THEN [memory |-> memory, stored |-> stored, completion |-> Thrown(reply.error)]
    ELSE LET success == ReadSuccess(reply.value)
         IN IF success.thrown
            THEN [memory |-> memory, stored |-> stored, completion |-> Thrown(success.error)]
            ELSE IF Truthy(success.value)
            THEN LET logged == [memory EXCEPT
                                   !.modifications = Append(@, Modification(command, params))]
                 IN [memory |-> logged, stored |-> logged, completion |-> Value(reply.value)]
            ELSE [memory |-> memory, stored |-> stored, completion |-> Value(reply.value)]

\* Storage as an earlier life of the object may have left it.
StoredAtStart ==
    {NoMetadata,
     Metadata("p2", <<>>),
     Metadata("p2", <<Modification(Str("ADD_WALL"), Obj(EmptyObject))>>)}

InitSession ==
    /\ ToolAtRest
    /\ SequenceAtRest
    /\ SocketAtRest
    /\ WorkerAtRest
    /\ QueueAtRest
    /\ sessionMetadata = NoMetadata
    /\ storedMetadata \in StoredAtStart
    /\ alarmScheduled = TRUE
    /\ planStorage = {"p1"}
    /\ containerRequests = <<>>
    /\ commandTask = IdleTask
    /\ loadTask = IdleTask
    /\ alarmTask = IdleTask

\* executeCommand(command, params), up to `await container.fetch(...)`.
ExecuteCommand ==
    /\ commandTask.pc \in {"idle", "done"}
    /\ Len(containerRequests) < MaxContainerRequests
    /\ \E c \in SessionCommands :
        /\ commandTask' = [pc |-> "await", command |-> c.command, params |-> c.params]
        /\ containerRequests' = Append(containerRequests, ContainerRequest("command", c.command))
    /\ sessionMetadata' = Initialize(sessionMetadata, storedMetadata)
    /\ UNCHANGED <<besideSession, storedMetadata, alarmScheduled, planStorage,
                   loadTask, alarmTask>>

\* The container answers a /command request's executeCommand.
CommandReply ==
    /\ commandTask.pc = "await"
    /\ \E reply \in ContainerReplies :
        LET after == ExecuteCommandAfter(sessionMetadata, storedMetadata,
                                         commandTask.command, commandTask.params, reply)
        IN /\ sessionMetadata' = after.memory
           /\ storedMetadata' = after.stored
           /\ commandTask' = [pc |-> "done", command |-> commandTask.command,
                              params |-> commandTask.params,
                              completion |-> after.completion]
    /\ UNCHANGED <<besideSession, alarmScheduled, planStorage, containerRequests,
                   loadTask, alarmTask>>

\* loadPlan(planId), up to `await this.env.PLANNER_STORAGE.get(planKey)`.
LoadPlan ==
    /\ loadTask.pc \in {"idle", "done"}
    /\ \E planId \in PlanIds : loadTask' = [pc |-> "awaitGet", planId |-> planId]
    /\ sessionMetadata' = Initialize(sessionMetadata, storedMetadata)
    /\ UNCHANGED <<besideSession, storedMetadata, alarmScheduled, planStorage,
                   containerRequests, commandTask, alarmTask>>

PlanNotFound(planId) == [message |-> <<"Plan not found: ", planId>>]

\* The plan storage answers: no object, and loadPlan throws; or the plan,
\* and loadPlan goes on to executeCommand('LOAD_PROJECT', ...) up to its fetch.
LoadPlanGot ==
    /\ loadTask.pc = "awaitGet"
    /\ IF loadTask.planId \notin planStorage
       THEN /\ loadTask' = [pc |-> "done", planId |-> loadTask.planId,
                            completion |-> Thrown(PlanNotFound(loadTask.planId))]
            /\ UNCHANGED containerRequests
       ELSE /\ Len(containerRequests) < MaxContainerRequests
            /\ loadTask' = [pc |-> "awaitContainer", planId |-> loadTask.planId]
            /\ containerRequests' =
                   Append(containerRequests, ContainerRequest("command", LoadProject.command))
    /\ UNCHANGED <<besideSession, sessionMetadata, storedMetadata, alarmScheduled,
                   planStorage, commandTask, alarmTask>>

\* loadPlan from the return of executeCommand on: `this.sessionMetadata.planId
\* = planId` and the put, unless executeCommand threw.
LoadPlanAfter(after, planId) ==
    IF after.completion.thrown
    THEN after
    ELSE LET named == [after.memory EXCEPT !.planId = planId]
         IN [memory |-> named, stored |-> named, completion |-> after.completion]

\* The container answers loadPlan's LOAD_PROJECT.
LoadPlanReply ==
    /\ loadTask.pc = "awaitContainer"
    /\ \E reply \in ContainerReplies :
        LET after == LoadPlanAfter(
                         ExecuteCommandAfter(sessionMetadata, storedMetadata,
                                             LoadProject.command, LoadProject.params, reply),
                         loadTask.planId)
        IN /\ sessionMetadata' = after.memory
           /\ storedMetadata' = after.stored
           /\ loadTask' = [pc |-> "done", planId |-> loadTask.planId,
                           completion |-> after.completion]
    /\ UNCHANGED <<besideSession, alarmScheduled, planStorage, containerRequests,
                   commandTask, alarmTask>>

\* `this.sessionMetadata && this.sessionMetadata.planId &&
\*  this.sessionMetadata.modifications.length > 0`
AlarmSaves(memory) ==
    /\ memory # NoMetadata
    /\ memory.planId # NoPlanId
    /\ memory.modifications # <<>>

\* alarm(): nothing at all, or savePlan(planId) up to getState's
\* `await container.fetch('http://container/state')`.  The alarm that fired
\* is no longer scheduled.
Alarm ==
    /\ alarmTask.pc \in {"idle", "done"}
    /\ alarmScheduled
    /\ alarmScheduled' = FALSE
    /\ IF AlarmSaves(sessionMetadata)
       THEN /\ Len(containerRequests) < MaxContainerRequests
            /\ alarmTask' = [pc |-> "awaitState", planId |-> sessionMetadata.planId]
            /\ containerRequests' = Append(containerRequests, ContainerRequest("state", Undefined))
       ELSE /\ alarmTask' = [pc |-> "done", log |-> "none"]
            /\ UNCHANGED containerRequests
    /\ UNCHANGED <<besideSession, sessionMetadata, storedMetadata, planStorage,
                   commandTask, loadTask>>

AlarmFailedClears(memory) == [memory EXCEPT !.modifications = <<>>]

\* The catch block: the error is logged, the metadata stays.
AlarmFailed(memory) == memory

\* savePlan after the put to plan storage (planId recorded), then
\* `this.sessionMetadata.modifications = []`.
AlarmSaved(memory, planId) ==
    [[memory EXCEPT !.planId = planId] EXCEPT !.modifications = <<>>]

\* The end of alarm() after a failed save: catch, then finally.
AlarmEndsFailed ==
    /\ sessionMetadata' = AlarmFailed(sessionMetadata)
    /\ alarmScheduled' = TRUE
    /\ alarmTask' = [pc |-> "done", log |-> "Auto-save failed"]
    /\ UNCHANGED <<storedMetadata, planStorage>>

\* The container answers getState: savePlan throws unless the state was
\* fetched, else it puts the state into plan storage and waits for that.
AlarmStateReply ==
    /\ alarmTask.pc = "awaitState"
    /\ \E reply \in ContainerReplies :
        IF reply.kind = "json" /\ ~ReadSuccess(reply.value).thrown
                               /\ Truthy(ReadSuccess(reply.value).value)
        THEN /\ alarmTask' = [pc |-> "awaitPut", planId |-> alarmTask.planId,
                              fetchedAt |-> Len(sessionMetadata.modifications)]
             /\ UNCHANGED <<sessionMetadata, storedMetadata, alarmScheduled, planStorage>>
        ELSE AlarmEndsFailed
    /\ UNCHANGED <<besideSession, containerRequests, commandTask, loadTask>>

\* The put to plan storage settles: the rest of savePlan and of alarm().
AlarmPutReply ==
    /\ alarmTask.pc = "awaitPut"
    /\ \E stored \in BOOLEAN :
        IF stored
        THEN /\ planStorage' = planStorage \cup {alarmTask.planId}
             /\ sessionMetadata' = AlarmSaved(sessionMetadata, alarmTask.planId)
             /\ storedMetadata' = sessionMetadata'
             /\ alarmScheduled' = TRUE
             /\ alarmTask' = [pc |-> "done", log |-> "Auto-save successful"]
        ELSE AlarmEndsFailed
    /\ UNCHANGED <<besideSession, containerRequests, commandTask, loadTask>>

NextSession ==
    \/ ExecuteCommand
    \/ CommandReply
    \/ LoadPlan
    \/ LoadPlanGot
    \/ LoadPlanReply
    \/ Alarm
    \/ AlarmStateReply
    \/ AlarmPutReply

SpecSession == InitSession /\ [][NextSession]_vars

\* The /command request's executeCommand completes in this step.
CommandCompletes == commandTask.pc = "await" /\ commandTask'.pc = "done"

\* The call returned the container's result and its success is true.
ReportedSuccess(task) ==
    /\ ~task.completion.thrown
    /\ task.completion.value.k = "object"
    /\ Get(task.completion.value.v, "success") = Bool(TRUE)

\* C34: executeCommand records a modification exactly when the container
\* reports success: then one entry with the call's command and params is
\* appended to sessionMetadata.modifications and the metadata in storage is
\* the metadata in memory; on any other result (success false, a body that
\* is null, a failed fetch) the metadata in memory and in storage stay as
\* they were.
C34_ModificationIffSuccess ==
    [][CommandCompletes =>
        IF ReportedSuccess(commandTask')
        THEN /\ Len(sessionMetadata'.modifications) = Len(sessionMetadata.modifications) + 1
             /\ SubSeq(sessionMetadata'.modifications, 1, Len(sessionMetadata.modifications))
                    = sessionMetadata.modifications
             /\ LET entry == sessionMetadata'.modifications[Len(sessionMetadata'.modifications)]
                IN /\ entry.command = commandTask.command
                   /\ entry.params = commandTask.params
             /\ sessionMetadata'.planId = sessionMetadata.planId
             /\ storedMetadata' = sessionMetadata'
        ELSE /\ sessionMetadata' = sessionMetadata
             /\ storedMetadata' = storedMetadata]_vars

\* A command succeeded while the storage held other metadata than it does now.
C34_Witness ==
    /\ commandTask.pc = "done"
    /\ ReportedSuccess(commandTask)
    /\ sessionMetadata # NoMetadata
    /\ Len(sessionMetadata.modifications) = 2
    /\ sessionMetadata.modifications[2].command = commandTask.command
    /\ storedMetadata = sessionMetadata

----------------------------------------------------------------------------
(* The Worker's fetch handler (index.js): one request, answered by the     *)
(* Worker itself or passed to a session; the handler is suspended at       *)
(* `await session.fetch(...)`.  A path is the sequence of its parts, the   *)
(* route first; an Authorization header is the sequence of its scheme      *)
(* prefix and the rest.                                                    *)

besideWorker == <<toolVars, sequenceVars, sessionVars, socketVars, queueVars>>

Methods == {"GET", "POST", "OPTIONS"}

SessionRoutes == {"/modify", "/command", "/screenshot", "/save", "/load"}

Paths ==
    {<<"/health">>, <<"/setup">>, <<"/">>, <<"/session/">>, <<"/session/", "s1", "/state">>,
     <<"/sessions">>, <<"/nowhere">>}
    \cup {<<r>> : r \in SessionRoutes}

NoHeader == <<>>   \* request.headers.get('Authorization') gives null

ApiKeys == {"", "key"}   \* env.WORKER_API_KEY: unset, or the key

AuthorizationHeaders ==
    {NoHeader, <<"Basic ", "key">>, <<"bearer ", "key">>, <<"Bearer ", "key">>,
     <<"Bearer ", "other">>, <<"Bearer ", "">>}

\* `complete`: the body (or, for /screenshot, the query) names what the
\* handler requires (sessionId, and prompt, command or planId).
Requests ==
    [method : Methods, path : Paths, authorization : AuthorizationHeaders,
     complete : BOOLEAN]

Envs ==
    [WORKER_API_KEY : ApiKeys, TESLA_API_KEY : {"", " ", "tesla"},
     JWT_SIGNING_KEY : {"", "jwt"}]

\* isBlank(value): falsy, or a string that trims to nothing.
isBlank(value) == value = "" \/ value = " "

\* crypto.subtle.digest('SHA-256', ...), taken to be free of collisions.
Digest(token) == <<"SHA-256", token>>

verifyAuthAnyBearer(req, env) ==
    \/ env.WORKER_API_KEY = ""
    \/ req.authorization # NoHeader /\ req.authorization[1] = "Bearer "

\* verifyAuth(request, env)
verifyAuth(req, env) ==
    IF env.WORKER_API_KEY = ""
    THEN TRUE
    ELSE IF req.authorization = NoHeader \/ req.authorization[1] # "Bearer "
    THEN FALSE
    ELSE Digest(req.authorization[2]) = Digest(env.WORKER_API_KEY)

Forwards == 0   \* no status yet: the handler goes on to session.fetch

\* The handler of an authenticated request, up to its first session.fetch:
\* the status it answers with by itself, or Forwards.
Handle(req) ==
    LET route == req.path[1]
    IN CASE route = "/session/" -> IF Len(req.path) < 2 THEN 400 ELSE Forwards
         [] route = "/screenshot" -> IF ~req.complete THEN 400 ELSE Forwards
         [] route \in SessionRoutes \ {"/screenshot"} ->
                IF req.method # "POST" THEN 405
                ELSE IF ~req.complete THEN 400 ELSE Forwards
         [] route = "/sessions" -> 200
         [] OTHER -> 404

\* fetch(request, env, ctx), up to the first session.fetch.
Answer(req, env) ==
    LET missingTeslaKey == isBlank(env.TESLA_API_KEY)
        missingJwtKey == isBlank(env.JWT_SIGNING_KEY)
    IN IF req.method = "OPTIONS" THEN 204
       ELSE IF req.path = <<"/health">> THEN 200
       ELSE IF req.method = "GET" /\ req.path = <<"/setup">> THEN 200
       ELSE IF req.path = <<"/">> /\ req.method = "GET" THEN 200
       ELSE IF missingTeslaKey \/ missingJwtKey THEN 503
       ELSE IF ~verifyAuth(req, env) THEN 401
       ELSE Handle(req)

\* A request arrives.
WorkerFetch ==
    /\ workerPc = "idle"
    /\ \E req \in Requests, env \in Envs :
        /\ request' = req
        /\ workerEnv' = env
        /\ IF Answer(req, env) = Forwards
           THEN /\ sessionFetches' = <<req.path[1]>>
                /\ workerPc' = "handler"
                /\ UNCHANGED workerResponse
           ELSE /\ workerResponse' = Answer(req, env)
                /\ workerPc' = "done"
                /\ UNCHANGED sessionFetches
    /\ UNCHANGED besideWorker

\* The session answers and its status is passed on; a fetch that rejects
\* ends in the catch block's 500.
SessionResponds ==
    /\ workerPc = "handler"
    /\ \E status \in {200, 500} : workerResponse' = status
    /\ workerPc' = "done"
    /\ UNCHANGED <<besideWorker, request, workerEnv, sessionFetches>>

NextWorker ==
    \/ WorkerFetch
    \/ SessionResponds

SpecWorker == Init /\ [][NextWorker]_vars

\* A request has arrived, WORKER_API_KEY is set, the path is one of the
\* session routes, and the Authorization header is missing, is not a Bearer
\* header or carries another token than the key.
UnauthenticatedRequest ==
    /\ workerPc # "idle"
    /\ workerEnv.WORKER_API_KEY # ""
    /\ request.path[1] \in SessionRoutes \cup {"/session/", "/sessions"}
    /\ \/ request.authorization = NoHeader
       \/ request.authorization[1] # "Bearer "
       \/ request.authorization[2] # workerEnv.WORKER_API_KEY

ConfigurationMissing ==
    \/ workerEnv.TESLA_API_KEY \in {"", " "}
    \/ workerEnv.JWT_SIGNING_KEY \in {"", " "}

\* C35 as stated: an unauthenticated request to a session route gets a 401
\* and causes no session.fetch; /health is answered without authentication.
C35_UnauthenticatedGets401 ==
    /\ UnauthenticatedRequest =>
        /\ sessionFetches = <<>>
        /\ workerPc = "done"
        /\ workerResponse = 401
    /\ (workerPc # "idle" /\ request.path = <<"/health">>) =>
        /\ workerPc = "done"
        /\ workerResponse \in {200, 204}

\* C35 (amended): an unauthenticated request to a session route causes no
\* session.fetch and is answered by the Worker itself: with 204 if its
\* method is OPTIONS, else with 503 while TESLA_API_KEY or JWT_SIGNING_KEY
\* is blank, else with 401; /health is answered without authentication
\* (200, or 204 for OPTIONS).
C35_NoSessionForUnauthenticated ==
    /\ UnauthenticatedRequest =>
        /\ sessionFetches = <<>>
        /\ workerPc = "done"
        /\ workerResponse = IF request.method = "OPTIONS" THEN 204
                            ELSE IF ConfigurationMissing THEN 503 ELSE 401
    /\ (workerPc # "idle" /\ request.path = <<"/health">>) =>
        /\ workerPc = "done"
        /\ sessionFetches = <<>>
        /\ workerResponse = IF request.method = "OPTIONS" THEN 204 ELSE 200

\* A complete POST /command with another token than the key, on a fully
\* configured Worker, was answered 401.
C35_Witness ==
    /\ UnauthenticatedRequest
    /\ request.method = "POST"
    /\ request.path = <<"/command">>
    /\ request.complete
    /\ request.authorization = <<"Bearer ", "other">>
    /\ ~ConfigurationMissing
    /\ workerResponse = 401

----------------------------------------------------------------------------
(* Properties of PlannerSessionDO's alarm and loadPlan (SpecSession).      *)

\* alarm() is entered in this step (the alarm that fired is consumed).
AlarmFires == alarmScheduled /\ ~alarmScheduled'

\* alarm() returns in this step, having tried to save.
AlarmEnds == alarmTask.pc \in {"awaitState", "awaitPut"} /\ alarmTask'.pc = "done"

\* C36: when alarm() fires with a planId set and at least one modification
\* it saves, and when it ends the next alarm is scheduled whether the save
\* succeeded or not, the modifications being cleared after a successful save
\* and kept after a failed one; when it fires with no planId or no
\* modification it saves nothing, changes nothing and schedules no alarm.
C36_AlarmClearsOnlyAfterSave ==
    [][/\ AlarmFires =>
            IF /\ sessionMetadata # NoMetadata
               /\ sessionMetadata.planId # NoPlanId
               /\ Len(sessionMetadata.modifications) > 0
            THEN /\ alarmTask'.pc = "awaitState"
                 /\ alarmTask'.planId = sessionMetadata.planId
            ELSE /\ alarmTask'.pc = "done"
                 /\ ~alarmScheduled'
                 /\ UNCHANGED <<sessionMetadata, storedMetadata, planStorage,
                                containerRequests>>
       /\ AlarmEnds =>
            /\ alarmScheduled'
            /\ IF alarmTask'.log = "Auto-save successful"
               THEN /\ alarmTask.planId \in planStorage'
                    /\ sessionMetadata'.modifications = <<>>
                    /\ storedMetadata' = sessionMetadata'
               ELSE /\ sessionMetadata'.modifications = sessionMetadata.modifications
                    /\ storedMetadata' = storedMetadata
                    /\ planStorage' = planStorage]_vars

\* An alarm's save failed: the modifications are still there and the next
\* alarm is scheduled.
C36_Witness ==
    /\ alarmTask.pc = "done"
    /\ alarmTask.log = "Auto-save failed"
    /\ alarmScheduled
    /\ sessionMetadata # NoMetadata
    /\ sessionMetadata.modifications # <<>>

\* C38: a modification that executeCommand appended while alarm() was
\* suspended in savePlan, after the state to save had been fetched, is still
\* among the modifications when alarm() has ended.
C38_ModificationsSurviveAutoSave ==
    [][(alarmTask.pc = "awaitPut" /\ alarmTask'.pc = "done") =>
        \A i \in (alarmTask.fetchedAt + 1)..Len(sessionMetadata.modifications) :
            \E j \in 1..Len(sessionMetadata'.modifications) :
                sessionMetadata'.modifications[j] = sessionMetadata.modifications[i]]_vars

\* The plan id the storage names (none before any metadata is stored).
StoredPlanId(stored) == IF stored = NoMetadata THEN NoPlanId ELSE stored.planId

\* C40: loadPlan changes the plan id only when the plan was loaded: for a
\* plan that is not in plan storage it throws without sending a command
\* or touching the metadata, and when LOAD_PROJECT comes back with success
\* false the stored planId keeps the value it had.
C40_PlanIdOnlyWhenLoaded ==
    [][/\ (loadTask.pc = "awaitGet" /\ loadTask'.pc = "done") =>
            /\ loadTask'.completion.thrown
            /\ UNCHANGED <<containerRequests, sessionMetadata, storedMetadata>>
       /\ (/\ loadTask.pc = "awaitContainer"
           /\ loadTask'.pc = "done"
           /\ ~ReportedSuccess(loadTask')) =>
            StoredPlanId(storedMetadata') = StoredPlanId(storedMetadata)]_vars

----------------------------------------------------------------------------
(* The Worker's queue consumer (index.js): the messages of a batch are     *)
(* handled one after the other; the consumer is suspended at the await of  *)
(* a message's session call.                                               *)

\* Longest batch the model delivers.
MaxMessages == 2

besideQueue == <<toolVars, sequenceVars, sessionVars, socketVars, workerVars>>

\* A message body { sessionId, task, params }.
Body(task, params) ==
    Obj([key \in {"sessionId", "task", "params"} |->
            CASE key = "sessionId" -> Str("s1")
              [] key = "task" -> Str(task)
              [] OTHER -> params])

OneCommand == Arr(<<Obj([key \in {"command"} |-> Str("SWITCH_VIEW")])>>)

\* The bodies the model delivers: the three tasks with the params they read,
\* a task that is not known, and bodies the code cannot read (null; params
\* missing; params.commands missing).
MessageBodies ==
    {Null,
     Body("AUTO_SAVE", Obj([key \in {"planId"} |-> Str("p1")])),
     Body("AUTO_SAVE", Undefined),
     Body("EXECUTE_COMMAND", Obj([key \in {"command"} |-> Str("ADD_WALL")])),
     Body("BATCH_COMMANDS", Obj([key \in {"commands"} |-> OneCommand])),
     Body("BATCH_COMMANDS", Obj(EmptyObject)),
     Body("CLEANUP", Obj(EmptyObject))}

Batches == UNION {[1..n -> MessageBodies] : n \in 0..MaxMessages}

\* What a message's pass through the try does before its first await: it
\* throws (a property of null or undefined is read, or commands is not
\* iterable), it makes a call on the session and awaits it, or, for a task
\* that is not known, it falls through the switch.
Dispatch(body) ==
    IF body.k # "object"
    THEN [kind |-> "thrown"]
    ELSE LET task == Get(body.v, "task")
             params == Get(body.v, "params")
         IN IF task \notin {Str("AUTO_SAVE"), Str("EXECUTE_COMMAND"), Str("BATCH_COMMANDS")}
            THEN [kind |-> "none"]
            ELSE IF params.k # "object"
            THEN [kind |-> "thrown"]
            ELSE CASE task = Str("AUTO_SAVE") -> [kind |-> "call", call |-> "/save"]
                   [] task = Str("EXECUTE_COMMAND") -> [kind |-> "call", call |-> "/command"]
                   [] OTHER -> IF Get(params.v, "commands").k = "array"
                               THEN [kind |-> "call", call |-> "executeCommandSequence"]
                               ELSE [kind |-> "thrown"]

\* How an awaited call can end: a session.fetch resolves (with any status)
\* or rejects; executeCommandSequence over a list returns.
CallOutcomes(call) ==
    IF call = "executeCommandSequence" THEN {"resolved"} ELSE {"resolved", "rejected"}

SettleAckOnly(thrown) == IF thrown THEN <<>> ELSE <<"ack">>

\* The calls made on the message: ack() at the end of the try, retry() in
\* the catch.
Settle(thrown) == IF thrown THEN <<"retry">> ELSE <<"ack">>

\* The message at queueIndex is settled and the loop moves on.
Settled(thrown) ==
    /\ settlements' = settlements \o
           [k \in 1..Len(Settle(thrown)) |->
               [message |-> queueIndex + 1, how |-> Settle(thrown)[k]]]
    /\ queueIndex' = queueIndex + 1
    /\ queuePc' = IF queueIndex + 1 < Len(batch) THEN "take" ELSE "done"

\* queue(batch, env) is invoked.
Queue ==
    /\ queuePc = "idle"
    /\ \E messages \in Batches :
        /\ batch' = messages
        /\ queuePc' = IF messages = <<>> THEN "done" ELSE "take"
    /\ UNCHANGED <<besideQueue, queueIndex, settlements, queueCalls>>

\* One pass of the loop, up to the message's await or to its end.
QueueTake ==
    /\ queuePc = "take"
    /\ LET todo == Dispatch(batch[queueIndex + 1])
       IN IF todo.kind = "call"
          THEN /\ queueCalls' = Append(queueCalls, [message |-> queueIndex + 1,
                                                    call |-> todo.call,
                                                    outcome |-> "pending"])
               /\ queuePc' = "await"
               /\ UNCHANGED <<queueIndex, settlements>>
          ELSE /\ Settled(todo.kind = "thrown")
               /\ UNCHANGED queueCalls
    /\ UNCHANGED <<besideQueue, batch>>

\* The awaited call ends.
QueueResume ==
    /\ queuePc = "await"
    /\ \E ending \in CallOutcomes(queueCalls[Len(queueCalls)].call) :
        /\ queueCalls' = [queueCalls EXCEPT ![Len(queueCalls)].outcome = ending]
        /\ Settled(ending = "rejected")
    /\ UNCHANGED <<besideQueue, batch>>

NextQueue ==
    \/ Queue
    \/ QueueTake
    \/ QueueResume

SpecQueue == Init /\ [][NextQueue]_vars

\* The message's body names a task the switch has no case for.
UnknownTask(body) ==
    /\ body.k = "object"
    /\ Get(body.v, "task") \notin {Str("AUTO_SAVE"), Str("EXECUTE_COMMAND"), Str("BATCH_COMMANDS")}

\* The handling of message k met an error: its call was rejected, or it
\* made no call though its task is a known one (its body could not be read).
Erred(k) ==
    \/ \E c \in 1..Len(queueCalls) :
          queueCalls[c].message = k /\ queueCalls[c].outcome = "rejected"
    \/ /\ ~UnknownTask(batch[k])
       /\ \A c \in 1..Len(queueCalls) : queueCalls[c].message # k

\* C37: the queue consumer settles every message exactly once and in batch
\* order: the k-th call of ack() or retry() is on the k-th message, every
\* message the loop has passed has its one call, the loop passes every
\* message of the batch, a message is retried exactly when its own handling
\* met an error, and a message with an unknown task is acked.
C37_EveryMessageSettledOnce ==
    /\ Len(settlements) = queueIndex
    /\ queueIndex <= Len(batch)
    /\ queuePc = "done" => queueIndex = Len(batch)
    /\ \A k \in 1..Len(settlements) :
        /\ settlements[k].message = k
        /\ settlements[k].how \in {"ack", "retry"}
        /\ settlements[k].how = "retry" <=> Erred(k)
        /\ UnknownTask(batch[k]) => settlements[k].how = "ack"

\* The first message's call was rejected and it was retried; the second,
\* of an unknown task, was acked all the same.
C37_Witness ==
    /\ queuePc = "done"
    /\ Len(batch) = 2
    /\ Len(settlements) = 2
    /\ settlements[1].how = "retry"
    /\ queueCalls # <<>>
    /\ queueCalls[1].outcome = "rejected"
    /\ UnknownTask(batch[2])
    /\ settlements[2].how = "ack"

----------------------------------------------------------------------------
(* PlannerSessionDO's WebSocket (durable-object.js): an upgrade request    *)
(* stores the server socket in this.webSocket; the socket's close and      *)
(* error listeners clear this.webSocket.  A socket is known by the order   *)
(* in which it was accepted.                                               *)

\* Most sockets accepted, and most messages sent, in one behaviour.
MaxSockets == 3
MaxSocketMessages == 3

besideSocket == <<toolVars, sequenceVars, sessionVars, workerVars, queueVars>>

MessageTypes == {"STEP_START", "STEP_COMPLETE", "STEP_ERROR"}

\* sendWebSocketMessage(type, payload): the log of sent messages afterwards
\* (send() on a socket that is no longer open throws, and the throw is caught).
SendWebSocketMessage(current, states, log, type) ==
    IF current = NoSocket
    THEN log
    ELSE IF states[current] = "open"
    THEN Append(log, [socket |-> current, type |-> type])
    ELSE log

\* The close listener and the error listener: `this.webSocket = null`.
OnCloseOrError(current, socket) == NoSocket

\* fetch(request) with `Upgrade: websocket`.
Upgrade ==
    /\ Len(sockets) < MaxSockets
    /\ Len(socketLog) < MaxSocketMessages
    /\ webSocket' = Len(sockets) + 1
    /\ sockets' = Append(sockets, "open")
    /\ socketLog' = SendWebSocketMessage(webSocket', sockets', socketLog, "CONNECTED")
    /\ UNCHANGED besideSocket

\* A socket that is open closes; its close listener runs.
SocketClose ==
    /\ \E socket \in 1..Len(sockets) :
        /\ sockets[socket] = "open"
        /\ sockets' = [sockets EXCEPT ![socket] = "closed"]
        /\ webSocket' = OnCloseOrError(webSocket, socket)
    /\ UNCHANGED <<besideSocket, socketLog>>

\* A socket that is open fails; its error listener runs.
SocketError ==
    /\ \E socket \in 1..Len(sockets) :
        /\ sockets[socket] = "open"
        /\ sockets' = [sockets EXCEPT ![socket] = "failed"]
        /\ webSocket' = OnCloseOrError(webSocket, socket)
    /\ UNCHANGED <<besideSocket, socketLog>>

\* A method of the session reports progress.
StatusMessage ==
    /\ Len(socketLog) < MaxSocketMessages
    /\ \E type \in MessageTypes :
        socketLog' = SendWebSocketMessage(webSocket, sockets, socketLog, type)
    /\ UNCHANGED <<besideSocket, webSocket, sockets>>

NextSocket ==
    \/ Upgrade
    \/ SocketClose
    \/ SocketError
    \/ StatusMessage

SpecSocket == Init /\ [][NextSocket]_vars

\* C39: this.webSocket is non-null, and is the most recently accepted
\* socket, whenever that socket is still open; the close or error event of
\* an older socket that was replaced does not clear it.
C39_NewestOpenSocketKept ==
    (sockets # <<>> /\ sockets[Len(sockets)] = "open") => webSocket = Len(sockets)

====
